---- MODULE Spec2Model ----
(***************************************************************************)
(* State-machine model of the AniSongLibrary catalog importer              *)
(* (backend/catalog/app/services/anisong_importer.py), the AniList anime   *)
(* import endpoint and the AMQ master-list scrape driver.                  *)
(*                                                                         *)
(* The catalog database is modelled table by table.  A table whose rows    *)
(* carry a surrogate uuid primary key is a sequence of records: the index  *)
(* of a row stands for its id.  A table whose primary key is the whole row *)
(* is a set of tuples.  Columns that no modelled branch reads (timestamps, *)
(* image urls, season/year, external_links) are left out.                  *)
(***************************************************************************)
EXTENDS Integers, Sequences, FiniteSets, TLC

(***************************************************************************)
(* Python None / SQL NULL and Optional[...] values.                        *)
(***************************************************************************)
None == <<>>
Some(v) == <<v>>
IsNone(o) == o = None
Val(o) == o[1]

\* Python truthiness of an Optional[bool]: bool(x or False)
Truthy(o) == o # None /\ Val(o)

(***************************************************************************)
(* A raw JSON scalar as it arrives in an upstream payload: kind "int" is a *)
(* JSON number, "str" a numeric string, "junk" a non-numeric value, "none" *)
(* a missing key or null.                                                  *)
(***************************************************************************)
JInt(n) == [kind |-> "int", v |-> n]
JStr(n) == [kind |-> "str", v |-> n]
JJunk == [kind |-> "junk", v |-> 0]
JNone == [kind |-> "none", v |-> 0]

_to_int(j) == IF j.kind \in {"int", "str"} THEN Some(j.v) ELSE None

(***************************************************************************)
(* Database tables (catalog service)                                       *)
(***************************************************************************)
VARIABLES
    people,             \* Seq of [kind, primary_name, alt_names, anisongdb_id]
    anime,              \* Seq of [title_en, title_jp, title_romaji, linked_ids]
    song,               \* Seq of [name, audio]
    song_artist,        \* set of <<song_id, people_id, role>>
    people_membership,  \* set of <<group_id, member_id>>
    song_anime,         \* Seq of [song_id, anime_id, use_type, sequence, notes, is_dub, is_rebroadcast]
    linkPassed,         \* history: per link key, what _link_once has been passed so far
    last                \* history: the last operation and what it observed

(***************************************************************************)
(* scripts/scrape_amq_master_list.py                                       *)
(***************************************************************************)
VARIABLES
    stateFile,          \* the --resume-state file: None, or Some(sorted Seq of ids)
    phase,              \* "idle" | "running" | "finished" (todo.join() has returned)
    state,              \* the State object: [done, ok, skipped, errors, total_to_do]
    todo,               \* asyncio.Queue of ids
    unfinished,         \* the queue's count of unfinished tasks
    workers,            \* per worker [pc, amq_id, attempt, delay, status]
    runs,               \* number of runs started
    hist                \* history of the current run

scrapevars == <<stateFile, phase, state, todo, unfinished, workers, runs, hist>>

(***************************************************************************)
(* scripts/seed/seed_top5000.py: AsyncRateLimiter                          *)
(***************************************************************************)
VARIABLES
    clock,              \* time.monotonic(), in seconds
    rl_last,            \* AsyncRateLimiter._last
    rl_lock,            \* AsyncRateLimiter._lock: 0 when free, else the task holding it
    tasks,              \* per task [pc, extra, wake]: its position in wait()
    rl_done             \* history: the time and task of every completed wait()

rlvars == <<clock, rl_last, rl_lock, tasks, rl_done>>

(***************************************************************************)
(* scripts/sync_amq_master_list.py                                         *)
(***************************************************************************)
VARIABLES
    syncFile,           \* the --state file: None, or Some([amq_ids, etag])
    sync,               \* the running main(): [pc, to_add, i, new_ids, etag, ok, skip, err]
    syncRuns,           \* number of runs started
    syncHist            \* history of the current run: [master, saved, posted, finished]

syncvars == <<syncFile, sync, syncRuns, syncHist>>

(***************************************************************************)
(* Library service: table library_entry and the requests in flight         *)
(***************************************************************************)
VARIABLES
    library_entry,      \* set of [user_id, song_id, score, is_favorite, note]
    libReqs,            \* per request slot: [pc, user_id, payload] of a create_rating in flight
    libLast             \* history: the last response [op, status, user_id, song_id]

libvars == <<library_entry, libReqs, libLast>>

(***************************************************************************)
(* Account service: table users and the register requests in flight        *)
(***************************************************************************)
VARIABLES
    users,              \* set of [email, display_name]
    regReqs,            \* per request slot: [pc, email, display_name] of a register in flight
    regLog              \* history: the answers given so far, Seq of [email, status, at]

regvars == <<users, regReqs, regLog>>

(***************************************************************************)
(* Catalog service: GET /songs/by-anime/{anime_id} requests in flight      *)
(***************************************************************************)
VARIABLES
    songsReq            \* [pc, anime_id]: a get_songs_by_anime awaiting the upstream

(***************************************************************************)
(* Seed script: one _do_request call                                       *)
(***************************************************************************)
VARIABLES
    doReq               \* [pc, method, base, path, backoff, passed, attempts, slept, status]

\* The variables of the components declared after the catalog service
afterSongs == <<doReq>>

\* The variables of the components declared after the account service
afterRegister == <<songsReq, afterSongs>>

\* The variables of the components declared after the library service
afterLibrary == <<regvars, afterRegister>>

\* The variables of the components declared after the sync driver
afterSync == <<libvars, afterLibrary>>

\* The variables of the components declared after the rate limiter
afterGate == <<syncvars, afterSync>>

\* The variables of the components declared after the scrape driver
elsewhere == <<rlvars, afterGate>>

\* Everything outside the catalog database and its history
outside == <<scrapevars, elsewhere>>

dbvars == <<people, anime, song, song_artist, people_membership, song_anime>>

\* The session's view of the database, threaded through the importer helpers.
\* trace is history only: what each _get_or_create_person call of the session
\* was passed and how it resolved.
DB == [people |-> people, anime |-> anime, song |-> song,
       song_artist |-> song_artist, people_membership |-> people_membership,
       song_anime |-> song_anime, trace |-> {}]

\* Query.first() without ORDER BY: the database may return any matching row.
\* pick resolves the choice ("lo": the oldest matching row, "hi": the newest).
Picks == {"lo", "hi"}
SetMin(S) == CHOOSE x \in S : \A y \in S : x <= y
SetMax(S) == CHOOSE x \in S : \A y \in S : x >= y
First(S, pick) == IF pick = "lo" THEN SetMin(S) ELSE SetMax(S)

\* One statement after another: v is evaluated once and F is applied to its
\* value (Python's `x = v` followed by the statements that use x).
With(v, F(_)) == CHOOSE r \in {F(x) : x \in {v}} : TRUE

(***************************************************************************)
(* Song.  _get_or_create_song                                              *)
(***************************************************************************)
_get_or_create_song(d, name, audio, pick) ==
    LET hit == {i \in DOMAIN d.song : d.song[i].name = name} IN
    IF hit # {}
    THEN LET i == First(hit, pick) IN
         [db |-> IF audio # "" /\ d.song[i].audio = ""
                 THEN [d EXCEPT !.song[i].audio = audio]
                 ELSE d,
          id |-> i]
    ELSE [db |-> [d EXCEPT !.song = Append(@, [name |-> name, audio |-> audio])],
          id |-> Len(d.song) + 1]

(***************************************************************************)
(* Anime.  _extract_linked_ids, _find_anime_by_linked_ids,                 *)
(* _get_or_create_anime_from_row                                           *)
(***************************************************************************)
NoLinked == [anilist |-> None, myanimelist |-> None]

\* row.linked_ids is None (absent / not a dict) or Some(record of raw values)
_extract_linked_ids(row) ==
    IF IsNone(row.linked_ids)
    THEN NoLinked
    ELSE [anilist     |-> _to_int(Val(row.linked_ids).anilist),
          myanimelist |-> _to_int(Val(row.linked_ids).myanimelist)]

AnimeWithAnilist(d, v) == {i \in DOMAIN d.anime : d.anime[i].linked_ids.anilist = Some(v)}
AnimeWithMal(d, v) == {i \in DOMAIN d.anime : d.anime[i].linked_ids.myanimelist = Some(v)}

\* A lookup that tries the MAL id before the AniList id.
_find_anime_by_linked_ids_mal_first(d, linked, pick) ==
    IF linked = NoLinked
    THEN None
    ELSE IF linked.myanimelist # None /\ AnimeWithMal(d, Val(linked.myanimelist)) # {}
         THEN Some(First(AnimeWithMal(d, Val(linked.myanimelist)), pick))
         ELSE IF linked.anilist # None /\ AnimeWithAnilist(d, Val(linked.anilist)) # {}
              THEN Some(First(AnimeWithAnilist(d, Val(linked.anilist)), pick))
              ELSE None

\* Returns None or Some(anime id).  AniList match first, then MAL.
_find_anime_by_linked_ids(d, linked, pick) ==
    IF linked = NoLinked
    THEN None
    ELSE IF linked.anilist # None /\ AnimeWithAnilist(d, Val(linked.anilist)) # {}
         THEN Some(First(AnimeWithAnilist(d, Val(linked.anilist)), pick))
         ELSE IF linked.myanimelist # None /\ AnimeWithMal(d, Val(linked.myanimelist)) # {}
              THEN Some(First(AnimeWithMal(d, Val(linked.myanimelist)), pick))
              ELSE None

\* Python `a or b` on Optional[str] titles ("" and None are both falsy)
OrTitle(a, b) == IF a # None /\ Val(a) # "" THEN a ELSE b

_get_or_create_anime_from_row(d, row, pick) ==
    LET linked == _extract_linked_ids(row)
        found  == _find_anime_by_linked_ids(d, linked, pick)
    IN  IF found # None
        THEN [db |-> d, id |-> Val(found), created |-> FALSE]
        ELSE [db |-> [d EXCEPT !.anime = Append(@,
                        [title_en     |-> row.animeENName,
                         title_jp     |-> row.animeJPName,
                         title_romaji |-> OrTitle(row.animeENName, row.animeJPName),
                         linked_ids   |-> linked])],
              id |-> Len(d.anime) + 1,
              created |-> TRUE]

(***************************************************************************)
(* People.  _get_or_create_person                                          *)
(*                                                                         *)
(* The unique index on people.anisongdb_id is not enforced by the model:   *)
(* were the code to store an id another row holds, the duplicate would     *)
(* show in the table.                                                      *)
(***************************************************************************)
\* A lookup by id that never matches.
PeopleWithId_never(d, aid) == {}

PeopleWithId(d, aid) ==
    IF aid = None THEN {}
    ELSE {i \in DOMAIN d.people : d.people[i].anisongdb_id = aid}

PeopleWithName(d, name) == {i \in DOMAIN d.people : d.people[i].primary_name = name}

InSeq(x, sq) == \E i \in DOMAIN sq : sq[i] = x

\* A kind update that overwrites instead of strengthening.
StrongerKind_overwrite(row_kind, kind) == kind

\* if kind == "group" and row.kind != "group": row.kind = "group"
StrongerKind(row_kind, kind) ==
    IF kind = "group" /\ row_kind # "group" THEN "group" ELSE row_kind

Traced(d, i, name, aid, kind, how, found_kind) ==
    [d EXCEPT !.trace = @ \cup {[id |-> i, aid |-> aid, kind |-> kind,
                                 how |-> how, found_kind |-> found_kind]}]

_get_or_create_person(d, name, anisongdb_id, kind, pick) ==
    IF PeopleWithId(d, anisongdb_id) # {}
    THEN \* by id
         LET i == First(PeopleWithId(d, anisongdb_id), pick)
             row == d.people[i]
             k1 == StrongerKind(row.kind, kind)
             a1 == IF name # "" /\ row.primary_name # name /\ ~InSeq(name, row.alt_names)
                   THEN Append(row.alt_names, name)
                   ELSE row.alt_names
         IN  [db |-> Traced([d EXCEPT !.people[i] = [row EXCEPT !.kind = k1, !.alt_names = a1]],
                            i, name, anisongdb_id, kind, "by_id", row.kind),
              id |-> i]
    ELSE IF PeopleWithName(d, name) # {}
    THEN \* by name
         LET i == First(PeopleWithName(d, name), pick)
             row == d.people[i]
             backfill == anisongdb_id # None /\ row.anisongdb_id = None
             id1 == IF backfill THEN anisongdb_id ELSE row.anisongdb_id
             k1 == StrongerKind(row.kind, kind)
         IN  [db |-> Traced([d EXCEPT !.people[i] = [row EXCEPT !.anisongdb_id = id1, !.kind = k1]],
                            i, name, anisongdb_id, kind,
                            IF backfill THEN "backfill" ELSE "by_name", row.kind),
              id |-> i]
    ELSE \* create
         [db |-> Traced([d EXCEPT !.people = Append(@,
                            [kind |-> kind, primary_name |-> name, alt_names |-> <<>>,
                             anisongdb_id |-> anisongdb_id])],
                        Len(d.people) + 1, name, anisongdb_id, kind, "created", "none"),
          id |-> Len(d.people) + 1]

(***************************************************************************)
(* Credits and memberships: INSERT ... ON CONFLICT DO NOTHING on the       *)
(* primary key (the whole row).                                            *)
(***************************************************************************)
_ensure_credit_by_id(d, song_id, people_id, role) ==
    [d EXCEPT !.song_artist = @ \cup {<<song_id, people_id, role>>}]

_ensure_credit(d, song_id, people_name, role, pick) ==
    With(_get_or_create_person(d, people_name, None, "person", pick), LAMBDA p :
         _ensure_credit_by_id(p.db, song_id, p.id, role))

_ensure_membership(d, group, member) ==
    [d EXCEPT !.people_membership = @ \cup {<<group, member>>}]

(***************************************************************************)
(* Artist objects.  An upstream Artist is [id, names, members, groups];    *)
(* members and groups are sequences of [id, names].                        *)
(***************************************************************************)
\* str.strip() on the names the model draws from
Strip(n) == CASE n = " "   -> ""
              [] n = " a " -> "a"
              [] n = "A "  -> "A"
              [] n = "B "  -> "B"
              [] OTHER     -> n

RECURSIVE _names_from_artist_obj_rec(_)
_names_from_artist_obj_rec(names) ==
    IF names = <<>> THEN <<>>
    ELSE (IF Strip(Head(names)) # "" THEN <<Head(names)>> ELSE <<>>)
         \o _names_from_artist_obj_rec(Tail(names))

_names_from_artist_obj(a) == _names_from_artist_obj_rec(a.names)

\* Optional[str]
_primary_name_from_artist_obj(a) ==
    IF _names_from_artist_obj(a) # <<>> THEN Some(Head(_names_from_artist_obj(a))) ELSE None

RECURSIVE _merge_alt_names(_, _)
_merge_alt_names(existing, incoming) ==
    IF incoming = <<>> THEN existing
    ELSE LET n == Strip(Head(incoming)) IN
         _merge_alt_names(IF n # "" /\ ~InSeq(n, existing) THEN Append(existing, n) ELSE existing,
                          Tail(incoming))

\* Python sq[1:]
Rest(sq) == IF sq = <<>> THEN <<>> ELSE Tail(sq)

SeqWithout(sq, x) == SelectSeq(sq, LAMBDA n : n # x)

\* f"Artist {id}" / f"Group {id}"
Placeholder(prefix, id) == prefix \o " " \o ToString(id)

\* The loop over a['members'] (lines 258-266) from index k on.
RECURSIVE UpsertMembers(_, _, _, _, _)
UpsertMembers(d, person, members, k, pick) ==
    IF k > Len(members) THEN d
    ELSE LET mem == members[k]
             mem_id == _to_int(mem.id)
             mem_name == IF _primary_name_from_artist_obj(mem) # None
                         THEN _primary_name_from_artist_obj(mem)
                         ELSE IF mem_id # None THEN Some(Placeholder("Artist", Val(mem_id)))
                         ELSE None
         IN  IF mem_name = None
             THEN UpsertMembers(d, person, members, k + 1, pick)
             ELSE With(_get_or_create_person(d, Val(mem_name), mem_id, "person", pick), LAMBDA m :
                       UpsertMembers(
                           _ensure_membership(
                               [m.db EXCEPT !.people[m.id].alt_names =
                                   _merge_alt_names(@, Rest(_names_from_artist_obj(mem)))],
                               person, m.id),
                           person, members, k + 1, pick))

\* The loop over a['groups'] (lines 269-276) from index k on.
RECURSIVE UpsertGroups(_, _, _, _, _)
UpsertGroups(d, person, groups, k, pick) ==
    IF k > Len(groups) THEN d
    ELSE LET grp == groups[k]
             gid == _to_int(grp.id)
             gname == IF _primary_name_from_artist_obj(grp) # None
                      THEN _primary_name_from_artist_obj(grp)
                      ELSE IF gid # None THEN Some(Placeholder("Group", Val(gid)))
                      ELSE None
         IN  IF gname = None
             THEN UpsertGroups(d, person, groups, k + 1, pick)
             ELSE With(_get_or_create_person(d, Val(gname), gid, "group", pick), LAMBDA g :
                       UpsertGroups(
                           _ensure_membership(
                               [g.db EXCEPT !.people[g.id].alt_names =
                                   _merge_alt_names(@, Rest(_names_from_artist_obj(grp)))],
                               g.id, person),
                           person, groups, k + 1, pick))

_upsert_artist_entity(d, a, pick) ==
    LET aid == _to_int(a.id)
        names == _names_from_artist_obj(a)
        primary == IF names # <<>> THEN Head(names)
                   ELSE IF aid # None THEN Placeholder("Artist", Val(aid))
                   ELSE "Unknown Artist"
        is_group == a.members # <<>>
        kind == IF is_group THEN "group" ELSE "person"
    IN  With(_get_or_create_person(d, primary, aid, kind, pick), LAMBDA p :
        With([p.db EXCEPT !.people[p.id].alt_names =
                 _merge_alt_names(@, SeqWithout(names, p.db.people[p.id].primary_name))], LAMBDA d1 :
        With(IF is_group THEN UpsertMembers(d1, p.id, a.members, 1, pick) ELSE d1, LAMBDA d2 :
             [db |-> UpsertGroups(d2, p.id, a.groups, 1, pick), id |-> p.id])))

(***************************************************************************)
(* POST /anime/import/anilist/{anilist_id}.  media is what AniList answers *)
(* for the id: None, or Some([id, idMal, english]).                        *)
(***************************************************************************)
_map_anilist_media_to_anime_fields(media) ==
    [title_en     |-> media.english,
     title_jp     |-> None,
     title_romaji |-> None,
     linked_ids   |-> [anilist |-> Some(media.id), myanimelist |-> media.idMal]]

\* Optional anime id
_get_by_anilist_id(d, anilist_id, pick) ==
    IF AnimeWithAnilist(d, anilist_id) # {}
    THEN Some(First(AnimeWithAnilist(d, anilist_id), pick))
    ELSE None

\* dict(existing.linked_ids).update(v): keys absent from v keep their value
MergeLinked(old, new) ==
    [anilist     |-> IF new.anilist # None THEN new.anilist ELSE old.anilist,
     myanimelist |-> IF new.myanimelist # None THEN new.myanimelist ELSE old.myanimelist]

import_anime_from_anilist(d, anilist_id, media, pick) ==
    IF media = None
    THEN [db |-> d, id |-> None, created |-> FALSE]          \* 404
    ELSE LET fields == _map_anilist_media_to_anime_fields(Val(media))
             existing == _get_by_anilist_id(d, anilist_id, pick)
         IN  IF existing # None
             THEN [db |-> [d EXCEPT !.anime[Val(existing)] =
                              [fields EXCEPT !.linked_ids = MergeLinked(d.anime[Val(existing)].linked_ids, @)]],
                   id |-> existing, created |-> FALSE]
             ELSE [db |-> [d EXCEPT !.anime = Append(@, fields)],
                   id |-> Some(Len(d.anime) + 1), created |-> TRUE]

(***************************************************************************)
(* Song <-> Anime links.  _link_once                                       *)
(*                                                                         *)
(* INSERT ... ON CONFLICT ON CONSTRAINT uq_song_anime_usage DO UPDATE.     *)
(* uq_song_anime_usage is UNIQUE (song_id, anime_id, use_type, sequence)   *)
(* declared without NULLS NOT DISTINCT: PostgreSQL treats two NULL         *)
(* sequences as distinct, so a row with sequence NULL never conflicts.     *)
(***************************************************************************)
UseTypes == {"OP", "ED", "IN"}

LinkConflicts(d, song_id, anime_id, use_type, sequence) ==
    {i \in DOMAIN d.song_anime :
        /\ d.song_anime[i].song_id = song_id
        /\ d.song_anime[i].anime_id = anime_id
        /\ d.song_anime[i].use_type = use_type
        /\ sequence # None
        /\ d.song_anime[i].sequence = sequence}

\* COALESCE(song_anime.notes, EXCLUDED.notes)
Coalesce(a, b) == IF a # None THEN a ELSE b

_link_once(d, song_id, anime_id, use_type, sequence, notes, is_dub, is_rebroadcast) ==
    LET vals == [song_id |-> song_id, anime_id |-> anime_id,
                 use_type |-> use_type, sequence |-> sequence,
                 notes |-> notes,
                 is_dub |-> Truthy(is_dub),
                 is_rebroadcast |-> Truthy(is_rebroadcast)]
        hit == LinkConflicts(d, song_id, anime_id, use_type, sequence)
    IN  IF hit # {}
        THEN LET i == CHOOSE j \in hit : TRUE IN
             [d EXCEPT !.song_anime[i] =
                 [@ EXCEPT !.is_dub = @ \/ vals.is_dub,
                           !.is_rebroadcast = @ \/ vals.is_rebroadcast,
                           !.notes = Coalesce(@, vals.notes)]]
        ELSE [d EXCEPT !.song_anime = Append(@, vals)]

(***************************************************************************)
(* AniSongDB client parsers.                                               *)
(*                                                                         *)
(* A songType string is modelled as the sequence of its words (the pieces  *)
(* between whitespace, '_' and '-'), e.g. <<"Opening", "1">>.              *)
(***************************************************************************)
\* str.lower() on the words and names the model draws from
Lower(t) == CASE t = "Opening" -> "opening"
              [] t = "Ending"  -> "ending"
              [] t = "Insert"  -> "insert"
              [] t = "Song"    -> "song"
              [] t = "OP1"     -> "op1"
              [] t = "ED"      -> "ed"
              [] t = "Theme"   -> "theme"
              [] t = "A"       -> "a"
              [] t = "B"       -> "b"
              [] t = "Show A"  -> "show a"
              [] t = "SHOW A"  -> "show a"
              [] t = "Show B"  -> "show b"
              [] OTHER         -> t

\* _num_re = (\d+) applied to one lowered word: the integer it contains, if any
DigitsIn(t) == CASE t = "1"   -> Some(1)
                 [] t = "2"   -> Some(2)
                 [] t = "op1" -> Some(1)
                 [] OTHER     -> None

\* _TYPE_MAP in insertion order (single-word keys; "insert song" can only
\* match where "insert" has matched before it)
TypeKeys == <<"op", "opening", "ed", "ending", "in", "insert">>
TypeVals == <<"OP", "OP", "ED", "ED", "IN", "IN">>

RECURSIVE FirstNumber(_)
FirstNumber(words) ==
    IF words = <<>> THEN None
    ELSE IF DigitsIn(Lower(Head(words))) # None THEN DigitsIn(Lower(Head(words)))
    ELSE FirstNumber(Tail(words))

HasWord(words, key) == \E i \in DOMAIN words : Lower(words[i]) = key

\* s is an Optional songType; returns <<use_type, sequence>>, both Optional
parse_use_type_and_seq(s) ==
    IF s = None \/ Val(s) = <<>>
    THEN <<None, None>>
    ELSE LET words == Val(s)
             seq == FirstNumber(words)
             hits == {k \in DOMAIN TypeKeys : HasWord(words, TypeKeys[k])}
         IN  IF hits # {}
             THEN <<Some(TypeVals[SetMin(hits)]), seq>>
             ELSE <<None, seq>>

\* The text of a songType, for the notes f-string
RECURSIVE JoinWords(_)
JoinWords(words) ==
    IF words = <<>> THEN ""
    ELSE IF Len(words) = 1 THEN Head(words)
    ELSE Head(words) \o " " \o JoinWords(Tail(words))

\* explode_names_from_string: s is None or Some(the pieces between the
\* separators of _ARTIST_SPLIT_RE); strips, drops empties, de-duplicates
\* case-insensitively keeping the first spelling.
RECURSIVE ExplodeRec(_, _, _)
ExplodeRec(parts, seen, out) ==
    IF parts = <<>> THEN out
    ELSE LET q == Strip(Head(parts)) IN
         IF q = "" \/ Lower(q) \in seen
         THEN ExplodeRec(Tail(parts), seen, out)
         ELSE ExplodeRec(Tail(parts), seen \cup {Lower(q)}, Append(out, q))

explode_names_from_string(s) ==
    IF s = None THEN <<>> ELSE ExplodeRec(Val(s), {}, <<>>)

(***************************************************************************)
(* Handlers.  A result row (SongEntry) is a record with the fields         *)
(*   annSongId, songName, name, songType, linked_ids, animeENName,         *)
(*   animeJPName, isDub, isRebroadcast, audio, HQ, MQ, artists, composers, *)
(*   arrangers, songArtist, songComposer, songArranger.                    *)
(***************************************************************************)
\* Python `a or b` on Optional[str]
OrStr(a, b) == IF a # None /\ Val(a) # "" THEN a ELSE b

\* Credits of one role: the objects if any, else the exploded string.
RECURSIVE CreditObjs(_, _, _, _, _, _)
CreditObjs(d, song_id, objs, k, role, pick) ==
    IF k > Len(objs) THEN d
    ELSE With(_upsert_artist_entity(d, objs[k], pick), LAMBDA p :
              CreditObjs(_ensure_credit_by_id(p.db, song_id, p.id, role),
                         song_id, objs, k + 1, role, pick))

RECURSIVE CreditNames(_, _, _, _, _, _)
CreditNames(d, song_id, names, k, role, pick) ==
    IF k > Len(names) THEN d
    ELSE CreditNames(_ensure_credit(d, song_id, names[k], role, pick), song_id, names, k + 1, role, pick)

CreditRole(d, song_id, objs, str, role, pick) ==
    IF objs # <<>>
    THEN CreditObjs(d, song_id, objs, 1, role, pick)
    ELSE CreditNames(d, song_id, explode_names_from_string(str), 1, role, pick)

CreditEveryone(d, song_id, r, pick) ==
    With(CreditRole(d, song_id, r.artists, r.songArtist, "artist", pick), LAMBDA d1 :
    With(CreditRole(d1, song_id, r.composers, r.songComposer, "composer", pick), LAMBDA d2 :
         CreditRole(d2, song_id, r.arrangers, r.songArranger, "arranger", pick)))

\* Whether the loop body skips the row (no name, no type, or a type that is
\* not OP / ED / IN).
RowSkipped(r) ==
    \/ OrStr(r.songName, r.name) = None \/ Val(OrStr(r.songName, r.name)) = ""
    \/ r.songType = None \/ Val(r.songType) = <<>>
    \/ parse_use_type_and_seq(r.songType)[1] = None
    \/ Val(parse_use_type_and_seq(r.songType)[1]) \notin UseTypes

\* A loop body that finds or creates the Song before it tests the songType.
PersistRow_song_first(d, r, pick) ==
    IF OrStr(r.songName, r.name) = None THEN d
    ELSE IF RowSkipped(r)
    THEN _get_or_create_song(d, Val(OrStr(r.songName, r.name)), "", pick).db
    ELSE LET song_name == Val(OrStr(r.songName, r.name))
             pr == parse_use_type_and_seq(r.songType)
             notes == Some("imported from AniSongDB: " \o JoinWords(Val(r.songType)))
         IN  With(_get_or_create_song(d, song_name, "", pick), LAMBDA s :
             With(_get_or_create_anime_from_row(s.db, r, pick), LAMBDA a :
             With(_link_once(a.db, s.id, a.id, Val(pr[1]), pr[2], notes,
                             Some(Truthy(r.isDub)), Some(Truthy(r.isRebroadcast))), LAMBDA d1 :
                  CreditEveryone(d1, s.id, r, pick))))

\* The loop body of import_songs_for_person (lines 644-694) and of
\* upsert_person_from_anisongdb_deep (lines 529-579) for a row that passed
\* the per-run de-duplication.
PersistRow(d, r, pick) ==
    IF RowSkipped(r) THEN d
    ELSE LET song_name == Val(OrStr(r.songName, r.name))
             pr == parse_use_type_and_seq(r.songType)
             au == OrStr(r.audio, OrStr(r.HQ, OrStr(r.MQ, None)))
             audio == IF au # None THEN Val(au) ELSE ""
             notes == Some("imported from AniSongDB: " \o JoinWords(Val(r.songType)))
         IN  With(_get_or_create_song(d, song_name, audio, pick), LAMBDA s :
             With(_get_or_create_anime_from_row(s.db, r, pick), LAMBDA a :
             With(_link_once(a.db, s.id, a.id, Val(pr[1]), pr[2], notes,
                             Some(Truthy(r.isDub)), Some(Truthy(r.isRebroadcast))), LAMBDA d1 :
                  CreditEveryone(d1, s.id, r, pick))))

\* for r in results: skip rows whose (annSongId, songName) was seen, else persist
RECURSIVE PersistRows(_, _, _, _, _)
PersistRows(d, results, k, seen_song_keys, pick) ==
    IF k > Len(results) THEN d
    ELSE LET r == results[k]
             key == <<r.annSongId, r.songName>>
         IN  IF key \in seen_song_keys
             THEN PersistRows(d, results, k + 1, seen_song_keys, pick)
             ELSE PersistRows(PersistRow(d, r, pick), results, k + 1,
                              seen_song_keys \cup {key}, pick)

\* Fallback search of import_songs_for_person (lines 618-629): the rows the
\* upstream search returns for each of the person's names, de-duplicated by
\* (annSongId, songName, animeENName).  search(name) is the upstream answer.
RECURSIVE SearchRows(_, _, _, _, _)
SearchRows(names, rows, k, seen, out) ==
    IF names = <<>> THEN out
    ELSE IF Head(names) = "" \/ k > Len(rows)
    THEN SearchRows(Tail(names), rows, 1, seen, out)
    ELSE LET r == rows[k]
             key == <<r.annSongId, r.songName, r.animeENName>>
         IN  IF key \in seen
             THEN SearchRows(names, rows, k + 1, seen, out)
             ELSE SearchRows(names, rows, k + 1, seen \cup {key}, Append(out, r))

\* by_artist, by_composer, by_search: what the upstream answers to
\* fetch_songs_by_artist_ids, fetch_songs_by_composer_ids and
\* search_songs_for_person.  roles is the role set of the request.
import_songs_for_person(d, person, roles, by_artist, by_composer, by_search, pick) ==
    LET row == d.people[person]
        r1 == IF row.anisongdb_id # None
              THEN (IF "artist" \in roles THEN by_artist ELSE <<>>)
                   \o (IF "composer" \in roles THEN by_composer ELSE <<>>)
              ELSE <<>>
        results == IF r1 # <<>> THEN r1
                   ELSE SearchRows(<<row.primary_name>> \o row.alt_names, by_search, 1, {}, <<>>)
    IN  IF results = <<>> THEN d
        ELSE PersistRows(d, results, 1, {}, pick)

\* The first Artist object with the target id among the rows' field
\* ("artists" or "composers"); None when there is none.
RECURSIVE FindArtistObj(_, _, _)
FindArtistObj(objs_of_rows, aid, k) ==
    IF k > Len(objs_of_rows) THEN None
    ELSE LET hit == {i \in DOMAIN objs_of_rows[k] : _to_int(objs_of_rows[k][i].id) = Some(aid)} IN
         IF hit # {} THEN Some(objs_of_rows[k][SetMin(hit)])
         ELSE FindArtistObj(objs_of_rows, aid, k + 1)

\* Returns [db, person]: person is None when the upstream has no rows.
upsert_person_from_anisongdb_deep(d, aid, import_songs, by_artist, by_composer, pick) ==
    LET rows == by_artist \o by_composer
        in_artists == FindArtistObj([k \in DOMAIN rows |-> rows[k].artists], aid, 1)
        in_composers == FindArtistObj([k \in DOMAIN rows |-> rows[k].composers], aid, 1)
        target == IF in_artists # None THEN Val(in_artists)
                  ELSE IF in_composers # None THEN Val(in_composers)
                  ELSE [id |-> JInt(aid), names |-> <<Placeholder("Artist", aid)>>,
                        members |-> <<>>, groups |-> <<>>]
    IN  IF rows = <<>> THEN [db |-> d, person |-> None]
        ELSE With(_upsert_artist_entity(d, target, pick), LAMBDA p :
             With(IF p.db.people[p.id].anisongdb_id = None
                  THEN [p.db EXCEPT !.people[p.id].anisongdb_id = Some(aid)]
                  ELSE p.db, LAMBDA d1 :
                  IF ~import_songs THEN [db |-> d1, person |-> Some(p.id)]
                  ELSE [db |-> PersistRows(d1, rows, 1, {}, pick), person |-> Some(p.id)]))

(***************************************************************************)
(* import_songs_for_anime.  by_mal is what the upstream answers to         *)
(* fetch_by_mal_ids, by_title what it answers to search_by_title.  The     *)
(* model's rows carry no animeAltName.                                     *)
(***************************************************************************)
\* Python truthiness of a raw JSON id (None and 0 are falsy)
JTruthy(j) == j.kind # "none" /\ ~(j.kind = "int" /\ j.v = 0)

\* Python truthiness of an Optional[int] column value
IntTruthy(o) == o # None /\ Val(o) # 0

\* (title or "").lower()
TitleLower(t) == IF t = None THEN "" ELSE Lower(Val(t))

\* row.get("linked_ids") or {}
RowLinked(row) ==
    IF row.linked_ids = None THEN [anilist |-> JNone, myanimelist |-> JNone]
    ELSE Val(row.linked_ids)

\* mal_db and mal_row and int(mal_db) == int(mal_row), for either catalog
IdMatches(in_db, in_row) ==
    IntTruthy(in_db) /\ JTruthy(in_row) /\ _to_int(in_row) = in_db

\* int(mal_row) / int(ani_row) raises ValueError on a non-numeric value
\* (the AniList comparison is reached only when the MAL one did not match)
_row_matches_anime_raises(row, a) ==
    \/ IntTruthy(a.linked_ids.myanimelist) /\ RowLinked(row).myanimelist.kind = "junk"
    \/ /\ ~IdMatches(a.linked_ids.myanimelist, RowLinked(row).myanimelist)
       /\ IntTruthy(a.linked_ids.anilist) /\ RowLinked(row).anilist.kind = "junk"

_row_matches_anime(row, a) ==
    \/ IdMatches(a.linked_ids.myanimelist, RowLinked(row).myanimelist)
    \/ IdMatches(a.linked_ids.anilist, RowLinked(row).anilist)
    \/ {TitleLower(a.title_en), TitleLower(a.title_romaji), TitleLower(a.title_jp)}
          \cap {TitleLower(row.animeENName), TitleLower(row.animeJPName)} # {}

\* The titles the search is tried with: [title_en, title_romaji, title_jp] if t
SearchTitles(a) ==
    SelectSeq(<<a.title_en, a.title_romaji, a.title_jp>>, LAMBDA t : t # None /\ Val(t) # "")

RECURSIVE TitleResults(_, _, _)
TitleResults(a, titles, by_title) ==
    IF titles = <<>> THEN <<>>
    ELSE SelectSeq(by_title, LAMBDA r : _row_matches_anime(r, a))
         \o TitleResults(a, Tail(titles), by_title)

\* Lines 358-370: the rows the loop runs over.  a is the Anime the caller loaded.
AnimeResults(a, by_mal, by_title) ==
    IF IntTruthy(a.linked_ids.myanimelist) THEN by_mal
    ELSE TitleResults(a, SearchTitles(a), by_title)

\* Whether lines 358-370 raise before the loop starts
AnimeResultsRaise(a, by_title) ==
    /\ ~IntTruthy(a.linked_ids.myanimelist)
    /\ SearchTitles(a) # <<>>
    /\ \E k \in DOMAIN by_title : _row_matches_anime_raises(by_title[k], a)

\* if song not in out_songs: out_songs.append(song)
OutSongs(out_songs, song_id) ==
    IF InSeq(song_id, out_songs) THEN out_songs ELSE Append(out_songs, song_id)

\* The loop body (lines 389-447) for a row that is neither skipped nor a
\* repeat: song, credits, then the link to the given anime.
PersistAnimeRow(d, anime_id, r, pick) ==
    LET song_name == Val(OrStr(r.songName, r.name))
        pr == parse_use_type_and_seq(r.songType)
        au == OrStr(r.audio, OrStr(r.HQ, OrStr(r.MQ, None)))
        audio == IF au # None THEN Val(au) ELSE ""
        notes == Some("imported from AniSongDB: " \o JoinWords(Val(r.songType)))
    IN  With(_get_or_create_song(d, song_name, audio, pick), LAMBDA s :
        With(CreditEveryone(s.db, s.id, r, pick), LAMBDA d1 :
             [db |-> _link_once(d1, s.id, anime_id, Val(pr[1]), pr[2], notes,
                                Some(Truthy(r.isDub)), Some(Truthy(r.isRebroadcast))),
              id |-> s.id]))

\* for r in results (lines 378-447); returns [db, out_songs]
RECURSIVE PersistAnimeRows(_, _, _, _, _, _, _)
PersistAnimeRows(d, anime_id, results, k, seen_pairs, out_songs, pick) ==
    IF k > Len(results) THEN [db |-> d, out_songs |-> out_songs]
    ELSE LET r == results[k]
             key == <<OrStr(r.songName, r.name), r.songType, r.annSongId>>
         IN  IF RowSkipped(r) \/ key \in seen_pairs
             THEN PersistAnimeRows(d, anime_id, results, k + 1, seen_pairs, out_songs, pick)
             ELSE With(PersistAnimeRow(d, anime_id, r, pick), LAMBDA s :
                       PersistAnimeRows(s.db, anime_id, results, k + 1, seen_pairs \cup {key},
                                        OutSongs(out_songs, s.id), pick))

\* a is the Anime object of the caller's session (loaded before the await).
import_songs_for_anime(d, anime_id, a, by_mal, by_title, pick) ==
    IF AnimeResults(a, by_mal, by_title) = <<>>
    THEN [db |-> d, out_songs |-> <<>>]
    ELSE PersistAnimeRows(d, anime_id, AnimeResults(a, by_mal, by_title), 1, {}, <<>>, pick)

(***************************************************************************)
(* Initial state: an empty catalog database.                               *)
(***************************************************************************)
vars == <<people, anime, song, song_artist, people_membership, song_anime,
          linkPassed, last, stateFile, phase, state, todo, unfinished, workers, runs, hist,
          elsewhere>>

NoLinkPassed == [is_dub |-> FALSE, is_rebroadcast |-> FALSE, notes |-> None]

\* Before any run: no state file, no State object, no task.
NoState == [done |-> {}, ok |-> 0, skipped |-> 0, errors |-> 0, total_to_do |-> 0]
NoHist == [requested |-> {}, doneAtStart |-> {}, ended |-> <<>>, erroredPrev |-> {},
           requestedDone |-> FALSE]
Concurrency == 2    \* Limits.concurrency
Workers == 1..Concurrency
IdleWorker == [pc |-> "none", amq_id |-> 0, attempt |-> 0, delay |-> 0, status |-> ""]

MaxTasks == 2       \* concurrent tasks calling AsyncRateLimiter.wait()
Tasks == 1..MaxTasks
OutsideGate == [pc |-> "out", extra |-> 0, wake |-> 0]

SyncIdle == [pc |-> "idle", to_add |-> <<>>, i |-> 0, new_ids |-> {}, etag |-> None,
             ok |-> 0, skip |-> 0, err |-> 0]
NoSyncHist == [master |-> <<>>, saved |-> {}, posted |-> <<>>, finished |-> FALSE]

MaxLibRequests == 2 \* create_rating requests in flight at once
LibSlots == 1..MaxLibRequests
NoRequest == [pc |-> "idle", user_id |-> 0, payload |-> <<>>]

MaxRegRequests == 2 \* register requests in flight at once
RegSlots == 1..MaxRegRequests
NoRegister == [pc |-> "idle", email |-> "", display_name |-> ""]

\* No _do_request call has started
NoDoRequest == [pc |-> "idle", method |-> "", base |-> <<>>, path |-> <<>>, backoff |-> 0,
                passed |-> FALSE, attempts |-> 0, slept |-> 0, status |-> 0]

NoSongsRequest == [pc |-> "idle", anime_id |-> 0, row |-> <<>>]

Init ==
    /\ people = <<>>
    /\ anime = <<>>
    /\ song = <<>>
    /\ song_artist = {}
    /\ people_membership = {}
    /\ song_anime = <<>>
    /\ linkPassed = <<>>
    /\ last = [op |-> "init"]
    /\ stateFile = None
    /\ phase = "idle"
    /\ state = NoState
    /\ todo = <<>>
    /\ unfinished = 0
    /\ workers = [w \in Workers |-> IdleWorker]
    /\ runs = 0
    /\ hist = NoHist
    /\ clock = 0
    /\ rl_last = 0
    /\ rl_lock = 0
    /\ tasks = [t \in Tasks |-> OutsideGate]
    /\ rl_done = <<>>
    /\ syncFile = None
    /\ sync = SyncIdle
    /\ syncRuns = 0
    /\ syncHist = NoSyncHist
    /\ library_entry = {}
    /\ libReqs = [r \in LibSlots |-> NoRequest]
    /\ libLast = [op |-> "none", status |-> 0, user_id |-> 0, song_id |-> 0]
    /\ users = {}
    /\ regReqs = [r \in RegSlots |-> NoRegister]
    /\ regLog = <<>>
    /\ songsReq = NoSongsRequest
    /\ doReq = NoDoRequest

\* Write a session's database back to the tables (commit).
Commit(d) ==
    /\ people' = d.people
    /\ anime' = d.anime
    /\ song' = d.song
    /\ song_artist' = d.song_artist
    /\ people_membership' = d.people_membership
    /\ song_anime' = d.song_anime

\* Whether some lookup of the importer can match two rows of d.  The
\* importer creates a row only after every lookup for it has failed, so a
\* handler that starts without such rows meets none, and its result does not
\* depend on pick.
Ambiguous(d) ==
    \/ \E i, j \in DOMAIN d.people :
          /\ i # j
          /\ \/ d.people[i].primary_name = d.people[j].primary_name
             \/ (d.people[i].anisongdb_id # None
                   /\ d.people[i].anisongdb_id = d.people[j].anisongdb_id)
    \/ \E i, j \in DOMAIN d.song : i # j /\ d.song[i].name = d.song[j].name
    \/ \E i, j \in DOMAIN d.anime :
          /\ i # j
          /\ \/ (d.anime[i].linked_ids.anilist # None
                   /\ d.anime[i].linked_ids.anilist = d.anime[j].linked_ids.anilist)
             \/ (d.anime[i].linked_ids.myanimelist # None
                   /\ d.anime[i].linked_ids.myanimelist = d.anime[j].linked_ids.myanimelist)

PicksFor(d) == IF Ambiguous(d) THEN Picks ELSE {"lo"}

(***************************************************************************)
(* Bounds and input sets                                                   *)
(***************************************************************************)
MaxLinks == 2       \* rows of song_anime
MaxAnime == 3       \* rows of anime
MaxSeq == 1         \* largest sequence number passed to _link_once

OptBools == {None, Some(TRUE), Some(FALSE)}
Notes == {None, Some("n1"), Some("n2")}
Sequences == {None} \cup {Some(n) : n \in 1..MaxSeq}
LinkUseTypes == {"OP", "IN"}   \* the use types the link actions draw from

\* An upstream SongEntry restricted to the anime it names.
AnimeRow(en, ani, mal) ==
    [animeENName |-> en, animeJPName |-> None,
     linked_ids |-> IF ani = JNone /\ mal = JNone THEN None
                    ELSE Some([anilist |-> ani, myanimelist |-> mal])]

(***************************************************************************)
(* Link reconciler on its own: songs and anime are found or created, then  *)
(* _link_once is called on them with every combination of arguments.       *)
(***************************************************************************)
LinkKey(r) == <<r.song_id, r.anime_id, r.use_type, r.sequence>>

PassedFor(k) == IF k \in DOMAIN linkPassed THEN linkPassed[k] ELSE NoLinkPassed

Call_get_or_create_song(names, audios) ==
    \E name \in names, audio \in audios, pick \in PicksFor(DB) :
        \E r \in {_get_or_create_song(DB, name, audio, pick)} :
        /\ Commit(r.db)
        /\ last' = [op |-> "get_or_create_song", id |-> r.id]
        /\ UNCHANGED <<linkPassed, outside>>

Call_get_or_create_anime_from_row(rows) ==
    \E row \in rows, pick \in PicksFor(DB) :
        \E r \in {_get_or_create_anime_from_row(DB, row, pick)} :
        /\ Len(anime) < MaxAnime
        /\ Commit(r.db)
        /\ last' = [op |-> "get_or_create_anime_from_row", id |-> r.id,
                    created |-> r.created, linked |-> _extract_linked_ids(row)]
        /\ UNCHANGED <<linkPassed, outside>>

Call_link_once ==
    \E s \in DOMAIN song, a \in DOMAIN anime, ut \in LinkUseTypes, sq \in Sequences,
       notes \in Notes, is_dub \in OptBools, is_rebroadcast \in OptBools :
        LET k == <<s, a, ut, sq>>
            prev == PassedFor(k)
        IN
        /\ Len(song_anime) < MaxLinks
        /\ Commit(_link_once(DB, s, a, ut, sq, notes, is_dub, is_rebroadcast))
        /\ linkPassed' = (k :> [is_dub |-> prev.is_dub \/ Truthy(is_dub),
                                is_rebroadcast |-> prev.is_rebroadcast \/ Truthy(is_rebroadcast),
                                notes |-> Coalesce(prev.notes, notes)]) @@ linkPassed
        /\ last' = [op |-> "link_once", key |-> k]
        /\ UNCHANGED outside

NextLink ==
    \/ Call_get_or_create_song({"Song A"}, {""})
    \/ Call_get_or_create_anime_from_row({AnimeRow(Some("Show A"), JInt(1), JNone)})
    \/ Call_link_once

SpecLink == Init /\ [][NextLink]_vars

\* C1: for every link key, the stored is_dub and is_rebroadcast of the
\* song_anime row(s) of that key equal the logical OR of all the values
\* _link_once has been passed for the key so far.
C1_FlagsAreOrOfPassed ==
    \A i \in DOMAIN song_anime :
        /\ song_anime[i].is_dub = PassedFor(LinkKey(song_anime[i])).is_dub
        /\ song_anime[i].is_rebroadcast = PassedFor(LinkKey(song_anime[i])).is_rebroadcast

\* C2: for every link key, the stored notes is the first non-null notes
\* value _link_once has been passed for the key.
C2_NotesFirstNonNull ==
    \A i \in DOMAIN song_anime :
        song_anime[i].notes = PassedFor(LinkKey(song_anime[i])).notes

\* C3: song_anime holds at most one row per (song_id, anime_id, use_type,
\* sequence), sequence = None included.
C3_OneRowPerKey ==
    \A i, j \in DOMAIN song_anime :
        LinkKey(song_anime[i]) = LinkKey(song_anime[j]) => i = j

(***************************************************************************)
(* Entity resolver for people on its own: _get_or_create_person and        *)
(* _upsert_artist_entity called with every combination of arguments.       *)
(***************************************************************************)
MaxPeople == 2      \* rows of people
MaxArtistId == 2    \* largest anisongdb id in a payload

PersonNames == {"A", "B"}
ArtistIds == {None} \cup {Some(n) : n \in 1..MaxArtistId}
Kinds == {"person", "group"}

\* An upstream Artist object and a members / groups entry of one
Artist(id, names, members, groups) ==
    [id |-> id, names |-> names, members |-> members, groups |-> groups]
SubArtist(id, names) == [id |-> id, names |-> names]

ArtistObjs ==
    {Artist(JInt(1), <<"A">>, <<>>, <<>>),
     Artist(JInt(MaxArtistId), <<"B", "B ", "A">>, <<SubArtist(JInt(1), <<"A">>)>>, <<>>),
     Artist(JInt(1), <<"A", " ", "B">>, <<>>, <<SubArtist(JStr(MaxArtistId), <<"B", "A ">>)>>),
     Artist(JStr(MaxArtistId), <<"A">>, <<>>, <<>>),
     Artist(JNone, <<"B">>, <<SubArtist(JNone, <<" ">>), SubArtist(JInt(1), <<>>)>>, <<>>),
     Artist(JJunk, <<>>, <<>>, <<SubArtist(JInt(MaxArtistId), <<>>)>>)}

Call_get_or_create_person ==
    \E name \in PersonNames, aid \in ArtistIds, kind \in Kinds, pick \in PicksFor(DB) :
        \E r \in {_get_or_create_person(DB, name, aid, kind, pick)} :
        /\ Len(r.db.people) <= MaxPeople
        /\ Commit(r.db)
        /\ last' = [op |-> "get_or_create_person", trace |-> r.db.trace]
        /\ UNCHANGED <<linkPassed, outside>>

Call_upsert_artist_entity ==
    \E a \in ArtistObjs, pick \in PicksFor(DB) :
        \E r \in {_upsert_artist_entity(DB, a, pick)} :
        /\ Len(r.db.people) <= MaxPeople
        /\ Commit(r.db)
        /\ last' = [op |-> "upsert_artist_entity", trace |-> r.db.trace]
        /\ UNCHANGED <<linkPassed, outside>>

\* A result row with every optional field absent
BaseRow ==
    [annSongId |-> None, songName |-> None, name |-> None, songType |-> None,
     linked_ids |-> None, animeENName |-> None, animeJPName |-> None,
     isDub |-> None, isRebroadcast |-> None, audio |-> None, HQ |-> None, MQ |-> None,
     artists |-> <<>>, composers |-> <<>>, arrangers |-> <<>>,
     songArtist |-> None, songComposer |-> None, songArranger |-> None]

\* "Opening 1" of Show A, ids for both catalogs, sung by artist 1
RowOpening ==
    [BaseRow EXCEPT !.annSongId = Some(1), !.songName = Some("Song A"),
                    !.songType = Some(<<"Opening", "1">>),
                    !.linked_ids = Some([anilist |-> JInt(1), myanimelist |-> JStr(1)]),
                    !.animeENName = Some("Show A"), !.isDub = Some(FALSE),
                    !.audio = Some("a.mp3"),
                    !.artists = <<Artist(JInt(1), <<"A">>, <<>>, <<>>)>>,
                    !.composers = <<Artist(JInt(MaxArtistId), <<"B">>, <<>>, <<>>)>>]

\* "Insert Song" of Show A: a song type without a number, credits as strings
RowInsert ==
    [BaseRow EXCEPT !.annSongId = Some(2), !.songName = Some("Song B"),
                    !.songType = Some(<<"Insert", "Song">>),
                    !.linked_ids = Some([anilist |-> JInt(1), myanimelist |-> JNone]),
                    !.animeENName = Some("Show A"), !.isDub = Some(TRUE),
                    !.HQ = Some("b.mp3"),
                    !.songArtist = Some(<<"A", " a ", "">>)]

\* "Ending 1" of a show the upstream has no linked ids for
RowNoLinked ==
    [BaseRow EXCEPT !.annSongId = Some(3), !.songName = Some("Song A"),
                    !.songType = Some(<<"Ending", "1">>),
                    !.animeENName = Some("Show B"),
                    !.artists = <<Artist(JInt(1), <<"A">>, <<>>, <<>>)>>]

\* A row whose song type is not OP / ED / IN
RowTheme ==
    [BaseRow EXCEPT !.annSongId = Some(4), !.songName = Some("Song B"),
                    !.songType = Some(<<"Theme", "2">>),
                    !.linked_ids = Some([anilist |-> JInt(1), myanimelist |-> JNone]),
                    !.artists = <<Artist(JInt(MaxArtistId), <<"B">>,
                                         <<SubArtist(JInt(1), <<"A">>)>>, <<>>)>>]

\* "Opening 1" and "Ending 1" of Show A by the same song, in rows that carry
\* no annSongId
RowOpeningNoId == [RowOpening EXCEPT !.annSongId = None]
RowEndingNoId ==
    [RowOpening EXCEPT !.annSongId = None, !.songType = Some(<<"Ending", "1">>)]

Rows == {RowOpening, RowInsert, RowNoLinked, RowTheme}

\* What the upstream may answer to one import: the rows by artist id, the
\* rows by composer id and the rows of the name search.
Upstream(by_artist, by_composer, by_search) ==
    [by_artist |-> by_artist, by_composer |-> by_composer, by_search |-> by_search]

Upstreams == <<
    Upstream(<<>>, <<>>, <<>>),
    Upstream(<<RowOpening>>, <<>>, <<>>),
    Upstream(<<RowInsert>>, <<>>, <<>>),
    Upstream(<<RowNoLinked>>, <<>>, <<>>),
    Upstream(<<RowTheme>>, <<RowOpening>>, <<>>),
    Upstream(<<RowOpening, RowOpening>>, <<>>, <<>>),
    Upstream(<<RowInsert>>, <<RowNoLinked>>, <<>>),
    Upstream(<<>>, <<>>, <<RowInsert, RowInsert>>),
    Upstream(<<RowOpeningNoId, RowEndingNoId>>, <<>>, <<>>) >>

MaxImportAnime == 2   \* rows of anime in the whole-import specification

WithinBounds(d) ==
    /\ Len(d.people) <= MaxPeople
    /\ Len(d.anime) <= MaxImportAnime
    /\ Len(d.song_anime) <= MaxLinks

\* POST /people/import/anisongdb/{id}?import_songs=false
Call_upsert_person_shallow ==
    \E aid \in 1..MaxArtistId, by_artist \in {<<>>, <<RowTheme>>},
       by_composer \in {<<>>, <<RowOpening>>}, pick \in PicksFor(DB) :
        \E r \in {upsert_person_from_anisongdb_deep(DB, aid, FALSE, by_artist, by_composer, pick)} :
        /\ WithinBounds(r.db)
        /\ Commit(r.db)
        /\ last' = [op |-> "upsert_person_shallow", trace |-> r.db.trace]
        /\ UNCHANGED <<linkPassed, outside>>

NextPeople ==
    \/ Call_get_or_create_person
    \/ Call_upsert_artist_entity
    \/ Call_upsert_person_shallow

SpecPeople == Init /\ [][NextPeople]_vars

\* C5: no two People rows hold the same non-null anisongdb_id.  The model
\* does not enforce the unique index, so an upsert that stored an id another
\* row holds would leave two such rows.
C5_UniqueAnisongdbId ==
    \A i, j \in DOMAIN people :
        (people[i].anisongdb_id # None /\ people[i].anisongdb_id = people[j].anisongdb_id)
            => i = j

\* C5 witness: an upsert backfilled a missing id on a row found by name while
\* another row holds a different id.
C5_Witness ==
    /\ last.op \in {"get_or_create_person", "upsert_artist_entity", "upsert_person_shallow"}
    /\ \E t \in last.trace : t.how = "backfill"
    /\ \E i, j \in DOMAIN people :
          /\ people[i].anisongdb_id # None
          /\ people[j].anisongdb_id # None
          /\ i # j

\* C6: a row of kind 'group' stays 'group' in every step, and every row a
\* call passed kind='group' for is 'group' after the call.
C6_KindOnlyStrengthens ==
    [][/\ \A i \in DOMAIN people : people[i].kind = "group" => people'[i].kind = "group"
       /\ \A t \in last'.trace : t.kind = "group" => people'[t.id].kind = "group"]_vars

\* C6 witness: a call passed kind='group' for a row it found with kind
\* 'person', and a call passed kind='person' for a row it found as 'group'.
C6_Witness ==
    /\ last.op \in {"get_or_create_person", "upsert_artist_entity", "upsert_person_shallow"}
    /\ \E t \in last.trace : t.kind = "group" /\ t.found_kind = "person"
    /\ \E i \in DOMAIN people : people[i].kind = "group" /\ people[i].anisongdb_id = None

(***************************************************************************)
(* Anime resolver: importer rows and AniList imports interleaved.          *)
(***************************************************************************)
MaxLinkedId == 2    \* largest AniList / MAL id in a payload

LinkedRaw == {JNone, JJunk} \cup {JInt(n) : n \in 1..MaxLinkedId} \cup {JStr(MaxLinkedId)}

AnimeRows == {AnimeRow(Some("Show A"), ani, mal) : ani \in LinkedRaw, mal \in LinkedRaw}

Medias(anilist_id) ==
    {None} \cup {Some([id |-> anilist_id, idMal |-> mal, english |-> Some("Show B")]) :
                    mal \in {None} \cup {Some(n) : n \in 1..MaxLinkedId}}

Call_import_anime_from_anilist ==
    \E anilist_id \in 1..MaxLinkedId, pick \in PicksFor(DB) :
      \E media \in Medias(anilist_id) :
        \E r \in {import_anime_from_anilist(DB, anilist_id, media, pick)} :
        /\ Len(r.db.anime) <= MaxAnime
        /\ Commit(r.db)
        /\ last' = [op |-> "import_anime_from_anilist", id |-> r.id, created |-> r.created,
                    linked |-> NoLinked]
        /\ UNCHANGED <<linkPassed, outside>>

NextAnime ==
    \/ Call_get_or_create_anime_from_row(AnimeRows)
    \/ Call_import_anime_from_anilist

SpecAnime == Init /\ [][NextAnime]_vars

AnilistUnique(t) ==
    \A i, j \in DOMAIN t :
        (t[i].linked_ids.anilist # None /\ t[i].linked_ids.anilist = t[j].linked_ids.anilist)
            => i = j

MatchesAnilist(t, linked) ==
    {i \in DOMAIN t : linked.anilist # None /\ t[i].linked_ids.anilist = linked.anilist}
MatchesMal(t, linked) ==
    {i \in DOMAIN t : linked.myanimelist # None /\ t[i].linked_ids.myanimelist = linked.myanimelist}

\* C7: a call of _get_or_create_anime_from_row creates no row when a row
\* matched the payload's anilist or myanimelist id, returns an AniList match
\* whenever there is one, and after every importer call and AniList import
\* no two Anime rows share an anilist id.
C7_FindBeforeCreate ==
    [][/\ AnilistUnique(anime')
       /\ last'.op = "get_or_create_anime_from_row" =>
            /\ last'.created =>
                 MatchesAnilist(anime, last'.linked) \cup MatchesMal(anime, last'.linked) = {}
            /\ ~last'.created => anime' = anime
            /\ MatchesAnilist(anime, last'.linked) # {} =>
                 last'.id \in MatchesAnilist(anime, last'.linked)]_vars

\* C7 witness: the payload's two ids match different rows and the call
\* returned the AniList match without creating a row.
C7_Witness ==
    /\ last.op = "get_or_create_anime_from_row"
    /\ ~last.created
    /\ MatchesAnilist(anime, last.linked) # {}
    /\ MatchesMal(anime, last.linked) # {}
    /\ MatchesAnilist(anime, last.linked) \cap MatchesMal(anime, last.linked) = {}
    /\ last.id \in MatchesAnilist(anime, last.linked)

(***************************************************************************)
(* Whole imports: POST /people/import/anisongdb/{id} (deep) and            *)
(* import_songs_for_person, each run to its commit in one step.            *)
(***************************************************************************)
RoleSets == {{"artist", "composer", "arranger"}, {"composer"}}

\* last.args names the upstream answer by its index in Upstreams.
Call_upsert_person_deep ==
    \E aid \in 1..MaxArtistId, u \in DOMAIN Upstreams, pick \in PicksFor(DB) :
        \E r \in {upsert_person_from_anisongdb_deep(DB, aid, TRUE, Upstreams[u].by_artist,
                                                   Upstreams[u].by_composer, pick)} :
        /\ WithinBounds(r.db)
        /\ Commit(r.db)
        /\ last' = [op |-> "upsert_person_deep", args |-> <<aid, u>>]
        /\ UNCHANGED <<linkPassed, outside>>

Call_import_songs_for_person ==
    \E person \in DOMAIN people, roles \in RoleSets, u \in DOMAIN Upstreams,
       pick \in PicksFor(DB) :
        \E d \in {import_songs_for_person(DB, person, roles, Upstreams[u].by_artist,
                                         Upstreams[u].by_composer, Upstreams[u].by_search, pick)} :
        /\ WithinBounds(d)
        /\ Commit(d)
        /\ last' = [op |-> "import_songs_for_person", args |-> <<person, roles, u>>]
        /\ UNCHANGED <<linkPassed, outside>>

NextImport ==
    \/ Call_upsert_person_deep
    \/ Call_import_songs_for_person

SpecImport == Init /\ [][NextImport]_vars

\* C4: an import run again right after itself, for the same person with the
\* same upstream rows, leaves every table as the first run left it.
C4_ImportIdempotent ==
    [][(last.op \in {"upsert_person_deep", "import_songs_for_person"} /\ last' = last)
          => dbvars' = dbvars]_vars

(***************************************************************************)
(* scrape_amq_master_list.py                                               *)
(***************************************************************************)
MaxAmqId == 2       \* largest song id of the master list
MaxRuns == 2        \* runs of the script

\* The songId values of the master list's OP / ED / INS links, in file order
MasterSongIds ==
    [i \in 1..MaxAmqId |-> JInt(MaxAmqId + 1 - i)] \o <<JStr(MaxAmqId + 1), JInt(1), JNone>>

RECURSIVE SortedSeq(_)
SortedSeq(S) == IF S = {} THEN <<>> ELSE <<SetMin(S)>> \o SortedSeq(S \ {SetMin(S)})

SeqToSet(sq) == {sq[i] : i \in DOMAIN sq}

\* isinstance(song_id, int): only JSON numbers count
extract_unique_amq_song_ids(song_ids) ==
    SortedSeq({song_ids[i].v : i \in {j \in DOMAIN song_ids : song_ids[j].kind = "int"}})

\* State.__init__: the done set read from the state file
LoadDone(file) == IF file = None THEN {} ELSE SeqToSet(Val(file))

\* State._flush
Flushed(done) == Some(SortedSeq(done))

\* remaining_ids = [i for i in amq_ids if i not in state.done]: a list that
\* keeps every id.
RemainingIds_all(amq_ids, done) == amq_ids

RemainingIds(amq_ids, done) == SelectSeq(amq_ids, LAMBDA i : i \notin done)

\* import_with_retries: attempt, delay, max_delay, tries = 0, 1.5, 20.0, 6
\* (delays in units of 0.0001 s)
Tries == 6
InitialDelay == 15000
MaxDelay == 200000
NextDelay(delay) == IF (delay * 18) \div 10 < MaxDelay THEN (delay * 18) \div 10 ELSE MaxDelay

\* What one POST can come to: an HTTP response with a status, or an exception
\* raised by the client
HttpStatuses == {200, 300, 404, 409, 429, 500, 599, 600}
Responses == {[kind |-> "http", status |-> c] : c \in HttpStatuses}
             \cup {[kind |-> k, status |-> 0] : k \in {"ClientError", "TimeoutError", "Exception"}}

\* one_import: the value returned, or the exception raised
one_import(resp) ==
    IF resp.kind # "http" THEN [ret |-> None, exc |-> resp.kind, status |-> 0]
    ELSE IF resp.status = 404 THEN [ret |-> Some("not_found"), exc |-> "none", status |-> 404]
    ELSE IF resp.status = 409 THEN [ret |-> Some("ok_conflict"), exc |-> "none", status |-> 409]
    ELSE IF 200 <= resp.status /\ resp.status < 300
         THEN [ret |-> Some("ok"), exc |-> "none", status |-> resp.status]
    ELSE [ret |-> None, exc |-> "ClientResponseError", status |-> resp.status]

\* Whether import_with_retries sleeps and tries again after the exception:
\* a variant that also retries other HTTP statuses.
RetryableError_any_status(exc, status) ==
    exc \in {"ClientResponseError", "ClientError", "TimeoutError"}

\* Whether import_with_retries sleeps and tries again after the exception
\* (given attempts are left)
RetryableError(exc, status) ==
    \/ exc = "ClientResponseError" /\ (status = 429 \/ (500 <= status /\ status < 600))
    \/ exc \in {"ClientError", "TimeoutError"}

\* One turn of the while loop of import_with_retries on worker record wk:
\* ret is Some(status string) when the function returns, None when it loops.
import_with_retries_turn(wk, resp) ==
    LET attempt == wk.attempt + 1
        r == one_import(resp)
    IN  IF r.exc = "none"
        THEN [attempt |-> attempt, delay |-> wk.delay, ret |-> r.ret]
        ELSE IF RetryableError(r.exc, r.status)
        THEN IF attempt >= Tries
             THEN [attempt |-> attempt, delay |-> wk.delay, ret |-> Some("error")]
             ELSE [attempt |-> attempt, delay |-> NextDelay(wk.delay), ret |-> None]
        ELSE [attempt |-> attempt, delay |-> wk.delay, ret |-> Some("error")]

\* worker: a status that marks the id done -- a variant that marks every id.
MarksDone_always(status) == TRUE

\* worker: status.startswith("ok") or status == "not_found"
MarksDone(status) == status \in {"ok", "ok_conflict", "not_found"}

ErroredIn(h) == {i \in DOMAIN h.ended : h.ended[i] = "error"}

\* main(), up to the start of the workers
StartRun ==
    /\ phase \in {"idle", "finished"}
    /\ runs < MaxRuns
    /\ LET amq_ids == extract_unique_amq_song_ids(MasterSongIds)
           done == LoadDone(stateFile)
           remaining_ids == RemainingIds(amq_ids, done)
       IN  /\ state' = [NoState EXCEPT !.done = done, !.total_to_do = Len(remaining_ids)]
           /\ todo' = remaining_ids
           /\ unfinished' = Len(remaining_ids)
           /\ hist' = [NoHist EXCEPT !.doneAtStart = done, !.erroredPrev = ErroredIn(hist)]
    /\ workers' = [w \in Workers |-> [IdleWorker EXCEPT !.pc = "get"]]
    /\ phase' = "running"
    /\ runs' = runs + 1
    /\ last' = [op |-> "start"]
    /\ UNCHANGED <<dbvars, linkPassed, elsewhere, stateFile>>

\* worker: amq_id = await todo.get(); await polite_sleep(...)
WorkerGet(w) ==
    /\ phase = "running"
    /\ workers[w].pc = "get"
    /\ todo # <<>>
    /\ workers' = [workers EXCEPT ![w] = [pc |-> "import", amq_id |-> Head(todo), attempt |-> 0,
                                           delay |-> InitialDelay, status |-> ""]]
    /\ todo' = Tail(todo)
    /\ last' = [op |-> "get", worker |-> w]
    /\ UNCHANGED <<dbvars, linkPassed, elsewhere, stateFile, phase, state, unfinished, runs, hist>>

\* worker inside import_with_retries: one POST and what the loop makes of it
WorkerAttempt(w) ==
    /\ phase = "running"
    /\ workers[w].pc = "import"
    /\ \E resp \in Responses :
        LET t == import_with_retries_turn(workers[w], resp) IN
        /\ workers' = [workers EXCEPT ![w] =
                          [@ EXCEPT !.attempt = t.attempt, !.delay = t.delay,
                                    !.pc = IF t.ret = None THEN "import" ELSE "record",
                                    !.status = IF t.ret = None THEN "" ELSE Val(t.ret)]]
        /\ hist' = [hist EXCEPT !.requested = @ \cup {workers[w].amq_id},
                                !.requestedDone = @ \/ workers[w].amq_id \in LoadDone(stateFile)]
        /\ last' = [op |-> "attempt", worker |-> w, resp |-> resp]
    /\ UNCHANGED <<dbvars, linkPassed, elsewhere, stateFile, phase, state, todo, unfinished, runs>>

\* worker: the block under state.lock, then todo.task_done()
WorkerRecord(w) ==
    /\ phase = "running"
    /\ workers[w].pc = "record"
    /\ LET status == workers[w].status
           amq_id == workers[w].amq_id
           marks == MarksDone(status)
           done == IF marks THEN state.done \cup {amq_id} ELSE state.done
       IN  /\ state' = [state EXCEPT
                          !.done = done,
                          !.ok = IF status \in {"ok", "ok_conflict"} THEN @ + 1 ELSE @,
                          !.skipped = IF status = "not_found" THEN @ + 1 ELSE @,
                          !.errors = IF status \notin {"ok", "ok_conflict", "not_found"} THEN @ + 1 ELSE @]
           /\ stateFile' = IF marks THEN Flushed(done) ELSE stateFile
           /\ hist' = [hist EXCEPT !.ended = (amq_id :> status) @@ @]
    /\ workers' = [workers EXCEPT ![w] = [IdleWorker EXCEPT !.pc = "get"]]
    /\ unfinished' = unfinished - 1
    /\ last' = [op |-> "record", worker |-> w]
    /\ UNCHANGED <<dbvars, linkPassed, elsewhere, phase, todo, runs>>

\* main(): await todo.join() returns, the workers are cancelled
Join ==
    /\ phase = "running"
    /\ unfinished = 0
    /\ phase' = "finished"
    /\ workers' = [w \in Workers |-> IdleWorker]
    /\ last' = [op |-> "join"]
    /\ UNCHANGED <<dbvars, linkPassed, elsewhere, stateFile, state, todo, unfinished, runs, hist>>

\* KeyboardInterrupt: the run ends where it is; only the state file survives
Interrupt ==
    /\ phase = "running"
    /\ phase' = "idle"
    /\ workers' = [w \in Workers |-> IdleWorker]
    /\ todo' = <<>>
    /\ unfinished' = 0
    /\ last' = [op |-> "interrupt"]
    /\ UNCHANGED <<dbvars, linkPassed, elsewhere, stateFile, state, runs, hist>>

NextScrape ==
    \/ StartRun
    \/ \E w \in Workers : WorkerGet(w)
    \/ \E w \in Workers : WorkerAttempt(w)
    \/ \E w \in Workers : WorkerRecord(w)
    \/ Join
    \/ Interrupt

SpecScrape == Init /\ [][NextScrape]_vars

\* The runs in which only the first worker is scheduled (as with
\* --concurrency 1), under the scheduling asyncio guarantees: a worker that
\* can make its next POST does so unless the run ends first.
NextOneWorker ==
    \/ StartRun
    \/ WorkerGet(1)
    \/ WorkerAttempt(1)
    \/ WorkerRecord(1)
    \/ Join
    \/ Interrupt

FairSpecOneWorker ==
    Init /\ [][NextOneWorker]_vars /\ WF_vars(WorkerAttempt(1))

MasterIds == SeqToSet(extract_unique_amq_song_ids(MasterSongIds))

\* C8: a run requests only master-list ids that were not in the done set
\* persisted before it started, requests no id that the state file records
\* as done, and once it has finished it has requested exactly those ids.
C8_Resumable ==
    /\ hist.requested \subseteq MasterIds \ hist.doneAtStart
    /\ ~hist.requestedDone
    /\ phase = "finished" => hist.requested = MasterIds \ hist.doneAtStart

\* C8 witness: a second run that resumed with part of the list done has
\* finished after requesting the rest.
C8_Witness ==
    /\ phase = "finished"
    /\ runs = 2
    /\ hist.doneAtStart # {}
    /\ hist.requested # {}
    /\ hist.requested = MasterIds \ hist.doneAtStart

\* C9: an id joins the done set (in memory and in the state file) only after
\* its import ended ok, ok_conflict or not_found in this run; an id whose
\* import ended in error is not added, and the next run has it to do again.
C9_DoneOnlyAfterSuccess ==
    /\ \A i \in (state.done \cup LoadDone(stateFile)) \ hist.doneAtStart :
          /\ i \in DOMAIN hist.ended
          /\ hist.ended[i] \in {"ok", "ok_conflict", "not_found"}
    /\ \A i \in ErroredIn(hist) : i \notin state.done /\ i \notin LoadDone(stateFile)
    /\ hist.erroredPrev \cap hist.doneAtStart = {}

\* C9 witness: an id whose import ended in error in the previous run is
\* requested again by this run, while another id is recorded as done.
C9_Witness ==
    /\ runs = 2
    /\ hist.erroredPrev \cap hist.requested # {}
    /\ hist.doneAtStart # {}

\* C10: every turn of import_with_retries is an attempt numbered at most 6
\* that either returns a status or loops; it loops only after 429, 5xx, a
\* client error or a timeout and only before the 6th attempt; 2xx, 404 and
\* 409 return ok, not_found and ok_conflict at once; any other HTTP status
\* or exception returns error at once; and, scheduled fairly, a worker does
\* not stay inside import_with_retries for ever.
C10_RetriesTerminate ==
    /\ [][\A w \in Workers :
            (last'.op = "attempt" /\ last'.worker = w) =>
              LET resp == last'.resp
                  retried == workers'[w].pc = "import"
                  status == workers'[w].status
                  transient == \/ resp.kind \in {"ClientError", "TimeoutError"}
                               \/ resp.kind = "http" /\ resp.status = 429
                               \/ resp.kind = "http" /\ resp.status \in 500..599
              IN  /\ workers'[w].attempt = workers[w].attempt + 1
                  /\ workers'[w].attempt <= 6
                  /\ workers'[w].pc \in {"import", "record"}
                  /\ retried => transient /\ workers'[w].attempt < 6
                  /\ ~retried => status \in {"ok", "ok_conflict", "not_found", "error"}
                  /\ (resp.kind = "http" /\ resp.status \in 200..299) => ~retried /\ status = "ok"
                  /\ (resp.kind = "http" /\ resp.status = 404) => ~retried /\ status = "not_found"
                  /\ (resp.kind = "http" /\ resp.status = 409) => ~retried /\ status = "ok_conflict"
                  /\ (~transient /\ ~(resp.kind = "http" /\ resp.status \in (200..299) \cup {404, 409}))
                        => ~retried /\ status = "error"
                  /\ (transient /\ workers'[w].attempt < 6) => retried]_vars
    /\ \A w \in Workers : [](workers[w].pc = "import" => <>(workers[w].pc # "import"))

\* C10 witness: a sixth attempt failed with a transient error and the
\* function returned 'error'.
C10_Witness ==
    /\ last.op = "attempt"
    /\ workers[last.worker].attempt = 6
    /\ workers[last.worker].pc = "record"
    /\ workers[last.worker].status = "error"
    /\ last.resp.kind = "http" /\ last.resp.status = 429

(***************************************************************************)
(* AsyncRateLimiter.  Time is in whole seconds; the default ANISONGDB_RPS  *)
(* of 0.20 gives min_interval = 5 s.  asyncio.sleep(t) returns t seconds   *)
(* after the call or later.                                                *)
(***************************************************************************)
MaxClock == 11      \* the clock stops here
MaxWaits == 3       \* completed wait() calls recorded

MinInterval == 5    \* 1.0 / max(ANISONGDB_RPS, 0.001)
ExtraSleeps == {-1, 0, 2}

Max(a, b) == IF a >= b THEN a ELSE b

\* A gate that never waits for the interval.
GateWait_none(last_, now) == 0

\* wait = max(self._last + self.min_interval - now, 0.0)
GateWait(last_, now) == Max(last_ + MinInterval - now, 0)

\* total = wait + max(extra_sleep, 0.0)
GateTotal(last_, now, extra_sleep) == GateWait(last_, now) + Max(extra_sleep, 0)

Tick ==
    /\ clock < MaxClock
    /\ clock' = clock + 1
    /\ UNCHANGED <<rl_last, rl_lock, tasks, rl_done>>
    /\ UNCHANGED <<dbvars, linkPassed, last, scrapevars, afterGate>>

\* A task calls wait(extra_sleep) and queues for the lock.
RlCall(t) ==
    \E extra \in ExtraSleeps :
        /\ tasks[t].pc = "out"
        /\ Len(rl_done) + Cardinality({u \in Tasks : tasks[u].pc # "out"}) < MaxWaits
        /\ tasks' = [tasks EXCEPT ![t] = [pc |-> "queued", extra |-> extra, wake |-> 0]]
        /\ UNCHANGED <<clock, rl_last, rl_lock, rl_done>>
        /\ UNCHANGED <<dbvars, linkPassed, last, scrapevars, afterGate>>

\* The task gets the lock, reads the clock and either sleeps holding the
\* lock or, with nothing to wait for, stamps _last and leaves at once.
RlAcquire(t) ==
    /\ tasks[t].pc = "queued"
    /\ rl_lock = 0
    /\ IF GateTotal(rl_last, clock, tasks[t].extra) > 0
       THEN /\ rl_lock' = t
            /\ tasks' = [tasks EXCEPT ![t].pc = "sleep",
                                      ![t].wake = clock + GateTotal(rl_last, clock, tasks[t].extra)]
            /\ UNCHANGED <<rl_last, rl_done>>
       ELSE /\ rl_last' = clock
            /\ rl_done' = Append(rl_done, [at |-> clock, task |-> t])
            /\ tasks' = [tasks EXCEPT ![t] = OutsideGate]
            /\ UNCHANGED rl_lock
    /\ UNCHANGED clock
    /\ UNCHANGED <<dbvars, linkPassed, last, scrapevars, afterGate>>

\* The sleep is over: self._last = time.monotonic(), and the lock is released.
RlWake(t) ==
    /\ tasks[t].pc = "sleep"
    /\ clock >= tasks[t].wake
    /\ rl_last' = clock
    /\ rl_done' = Append(rl_done, [at |-> clock, task |-> t])
    /\ rl_lock' = 0
    /\ tasks' = [tasks EXCEPT ![t] = OutsideGate]
    /\ UNCHANGED clock
    /\ UNCHANGED <<dbvars, linkPassed, last, scrapevars, afterGate>>

NextGate ==
    \/ Tick
    \/ \E t \in Tasks : RlCall(t)
    \/ \E t \in Tasks : RlAcquire(t)
    \/ \E t \in Tasks : RlWake(t)

SpecGate == Init /\ [][NextGate]_vars

\* C11: two successive completions of wait() are at least min_interval
\* apart, and at most one task is inside the gate (holding the lock) at a
\* time.
C11_MinIntervalGate ==
    /\ \A i \in 1..(Len(rl_done) - 1) : rl_done[i + 1].at - rl_done[i].at >= MinInterval
    /\ Cardinality({t \in Tasks : tasks[t].pc = "sleep"}) <= 1
    /\ \A t \in Tasks : tasks[t].pc = "sleep" => rl_lock = t

\* C11 witness: a task queued while another slept in the gate, and the two
\* completed exactly min_interval apart.
C11_Witness ==
    /\ Len(rl_done) >= 2
    /\ rl_done[2].task # rl_done[1].task
    /\ rl_done[2].at - rl_done[1].at = MinInterval
    /\ rl_done[1].at > 0

(***************************************************************************)
(* sync_amq_master_list.py.  A master list is modelled by the sequence of  *)
(* the songId values of its OP / ED / INS links, in file order.            *)
(***************************************************************************)
MaxSyncId == 3      \* largest song id of a fetched master list
MaxSyncRuns == 2    \* runs of the script

MasterLists ==
    {<<>>,
     <<JInt(2), JInt(1)>>,
     <<JInt(1), JStr(MaxSyncId), JInt(1), JNone>>,
     <<JInt(MaxSyncId), JJunk, JInt(2), JInt(1)>>}

\* extract(master)[1]: if isinstance(sid, int): ids.add(sid)
extract(master) == {master[i].v : i \in {j \in DOMAIN master : master[j].kind = "int"}}

\* load_state: the default state when the file does not exist
load_state(file) == IF file = None THEN [amq_ids |-> <<>>, etag |-> None] ELSE Val(file)

\* A delta that posts every id of the master list.
SyncToAdd_all(new_ids, old_ids) == SortedSeq(new_ids)

\* to_add = sorted(new_ids - old_ids)
SyncToAdd(new_ids, old_ids) == SortedSeq(new_ids \ old_ids)

\* new_state as written by save_state
NewState(new_ids, etag) == Some([amq_ids |-> SortedSeq(new_ids), etag |-> etag])

\* What http_post_json does for one id: it returns a status, or raises
\* (urlopen raises HTTPError for a status of 400 and above)
PostOutcomes == {[kind |-> "http", status |-> c] : c \in {200, 204, 301}}
                    \cup {[kind |-> "raised", status |-> c] : c \in {404, 409, 500}}

\* The tally at lines 112-121
SyncTally(r) ==
    IF r.kind = "raised" THEN "err"
    ELSE IF 200 <= r.status /\ r.status < 300 THEN "ok"
    ELSE IF r.status \in {404, 409} THEN "skip"
    ELSE "err"

\* The fetch fails (HTTPError / URLError): return 2.
SyncFetchFails ==
    /\ sync.pc = "idle"
    /\ syncRuns < MaxSyncRuns
    /\ syncRuns' = syncRuns + 1
    /\ syncHist' = [NoSyncHist EXCEPT !.saved = SeqToSet(load_state(syncFile).amq_ids)]
    /\ UNCHANGED <<syncFile, sync>>
    /\ UNCHANGED <<dbvars, linkPassed, last, scrapevars, rlvars, afterSync>>

\* 304 Not Modified, which the server answers to the saved etag: return 0.
SyncNotModified ==
    /\ sync.pc = "idle"
    /\ syncRuns < MaxSyncRuns
    /\ load_state(syncFile).etag # None
    /\ syncRuns' = syncRuns + 1
    /\ syncHist' = [NoSyncHist EXCEPT !.saved = SeqToSet(load_state(syncFile).amq_ids)]
    /\ UNCHANGED <<syncFile, sync>>
    /\ UNCHANGED <<dbvars, linkPassed, last, scrapevars, rlvars, afterSync>>

\* 200: lines 83-108.  With nothing to add the new state is saved at once.
SyncFetched ==
    \E master \in MasterLists, etag \in {None, Some("e1")} :
        LET st == load_state(syncFile)
            old_ids == SeqToSet(st.amq_ids)
            new_ids == extract(master)
            to_add == SyncToAdd(new_ids, old_ids)
        IN  /\ sync.pc = "idle"
            /\ syncRuns < MaxSyncRuns
            /\ syncRuns' = syncRuns + 1
            /\ IF to_add = <<>>
               THEN /\ syncFile' = NewState(new_ids, etag)
                    /\ sync' = SyncIdle
                    /\ syncHist' = [master |-> master, saved |-> old_ids, posted |-> <<>>,
                                    finished |-> TRUE]
               ELSE /\ sync' = [SyncIdle EXCEPT !.pc = "posting", !.to_add = to_add, !.i = 1,
                                                !.new_ids = new_ids, !.etag = etag]
                    /\ syncHist' = [master |-> master, saved |-> old_ids, posted |-> <<>>,
                                    finished |-> FALSE]
                    /\ UNCHANGED syncFile
            /\ UNCHANGED <<dbvars, linkPassed, last, scrapevars, rlvars, afterSync>>

\* One turn of the loop at lines 110-138: the POST and its tally.
SyncPost ==
    \E r \in PostOutcomes :
        /\ sync.pc = "posting"
        /\ sync.i <= Len(sync.to_add)
        /\ sync' = [sync EXCEPT !.i = @ + 1,
                                !.ok = IF SyncTally(r) = "ok" THEN @ + 1 ELSE @,
                                !.skip = IF SyncTally(r) = "skip" THEN @ + 1 ELSE @,
                                !.err = IF SyncTally(r) = "err" THEN @ + 1 ELSE @]
        /\ syncHist' = [syncHist EXCEPT !.posted = Append(@, sync.to_add[sync.i])]
        /\ UNCHANGED <<syncFile, syncRuns>>
        /\ UNCHANGED <<dbvars, linkPassed, last, scrapevars, rlvars, afterSync>>

\* After the loop: lines 143-152.
SyncSave ==
    /\ sync.pc = "posting"
    /\ sync.i > Len(sync.to_add)
    /\ syncFile' = NewState(sync.new_ids, sync.etag)
    /\ sync' = SyncIdle
    /\ syncHist' = [syncHist EXCEPT !.finished = TRUE]
    /\ UNCHANGED syncRuns
    /\ UNCHANGED <<dbvars, linkPassed, last, scrapevars, rlvars, afterSync>>

\* KeyboardInterrupt while posting or sleeping: the state is not saved.
SyncInterrupt ==
    /\ sync.pc = "posting"
    /\ sync' = SyncIdle
    /\ UNCHANGED <<syncFile, syncRuns, syncHist>>
    /\ UNCHANGED <<dbvars, linkPassed, last, scrapevars, rlvars, afterSync>>

NextSync ==
    \/ SyncFetchFails
    \/ SyncNotModified
    \/ SyncFetched
    \/ SyncPost
    \/ SyncSave
    \/ SyncInterrupt

SpecSync == Init /\ [][NextSync]_vars

\* The ids of a master list: its songId values that are JSON integers
MasterListIds(master) == {n \in 1..(MaxSyncId + 1) : \E i \in DOMAIN master : master[i] = JInt(n)}

\* C12: in a run that fetched the master list with a 200, the ids posted so
\* far are the first ones, in ascending order and each once, of (ids of the
\* fetched master list) minus (amq_ids of the saved state), and all of them
\* once the run has finished.
C12_ImportsOnlyAdditions ==
    LET delta == MasterListIds(syncHist.master) \ syncHist.saved IN
    /\ Len(syncHist.posted) <= Cardinality(delta)
    /\ syncHist.posted = SubSeq(SortedSeq(delta), 1, Len(syncHist.posted))
    /\ syncHist.finished => syncHist.posted = SortedSeq(delta)

\* C12 witness: a finished run whose master list repeats ids of the saved
\* state and adds new ones.
C12_Witness ==
    /\ syncHist.finished
    /\ syncHist.saved # {}
    /\ syncHist.saved \cap MasterListIds(syncHist.master) # {}
    /\ syncHist.posted # <<>>

(***************************************************************************)
(* Library service (library/app/api/library.py).  Handlers are sync `def`s *)
(* that FastAPI runs in a thread pool, so requests interleave: a           *)
(* create_rating is its existence check followed, in a later step, by its  *)
(* commit.  update_rating and delete_rating take effect at their commit.   *)
(* The primary key (user_id, song_id) is enforced by the database.         *)
(***************************************************************************)
MaxUsers == 2       \* users of the library service
MaxLibSongs == 1    \* songs a rating can be for

Users == 1..MaxUsers
LibSongs == 1..MaxLibSongs

RatingCreates ==
    {[song_id |-> sg, score |-> 0, is_favorite |-> FALSE, note |-> None] : sg \in LibSongs}
    \cup {[song_id |-> sg, score |-> 100, is_favorite |-> TRUE, note |-> Some("n")] : sg \in LibSongs}

RatingUpdates ==
    {[score |-> None, is_favorite |-> None, note |-> None],
     [score |-> Some(50), is_favorite |-> Some(TRUE), note |-> None]}

\* uuid5 over (user_id, song_id): one id per pair
_rating_id(user_id, song_id) == <<user_id, song_id>>

\* The rows of the table with this primary key
EntriesOf(table, user_id, song_id) ==
    {e \in table : e.user_id = user_id /\ e.song_id = song_id}

\* _get_by_rating_id_or_404: the user's rows whose derived id is rating_id
ByRatingId(table, user_id, rating_id) ==
    {e \in table : e.user_id = user_id /\ _rating_id(user_id, e.song_id) = rating_id}

\* An existence check that never finds the entry.
EntryExists_never(table, user_id, song_id) == FALSE

\* exists = db.query(...).filter(user_id, song_id).first()
EntryExists(table, user_id, song_id) == EntriesOf(table, user_id, song_id) # {}

NewEntry(user_id, payload) ==
    [user_id |-> user_id, song_id |-> payload.song_id, score |-> payload.score,
     is_favorite |-> payload.is_favorite, note |-> payload.note]

Respond(op, status, user_id, song_id) ==
    [op |-> op, status |-> status, user_id |-> user_id, song_id |-> song_id]

\* create_rating up to `if exists: raise HTTPException(409)`
LibCreateCheck(r) ==
    \E user_id \in Users, payload \in RatingCreates :
        /\ libReqs[r].pc = "idle"
        /\ IF EntryExists(library_entry, user_id, payload.song_id)
           THEN /\ libLast' = Respond("create", 409, user_id, payload.song_id)
                /\ UNCHANGED libReqs
           ELSE /\ libReqs' = [libReqs EXCEPT ![r] = [pc |-> "checked", user_id |-> user_id,
                                                      payload |-> payload]]
                /\ UNCHANGED libLast
        /\ UNCHANGED library_entry
        /\ UNCHANGED <<dbvars, linkPassed, last, scrapevars, rlvars, syncvars, afterLibrary>>

\* db.add(row); db.commit(): the INSERT fails on the primary key when a
\* concurrent request has committed the same (user_id, song_id); the
\* IntegrityError is not caught and the request answers 500.
LibCreateCommit(r) ==
    LET user_id == libReqs[r].user_id
        payload == libReqs[r].payload
    IN  /\ libReqs[r].pc = "checked"
        /\ IF EntriesOf(library_entry, user_id, payload.song_id) # {}
           THEN /\ libLast' = Respond("create", 500, user_id, payload.song_id)
                /\ UNCHANGED library_entry
           ELSE /\ library_entry' = library_entry \cup {NewEntry(user_id, payload)}
                /\ libLast' = Respond("create", 201, user_id, payload.song_id)
        /\ libReqs' = [libReqs EXCEPT ![r] = NoRequest]
        /\ UNCHANGED <<dbvars, linkPassed, last, scrapevars, rlvars, syncvars, afterLibrary>>

\* update_rating
LibUpdate ==
    \E user_id \in Users, rating_id \in Users \X LibSongs, payload \in RatingUpdates :
        LET rows == ByRatingId(library_entry, user_id, rating_id) IN
        /\ IF rows = {}
           THEN /\ libLast' = Respond("update", 404, user_id, rating_id[2])
                /\ UNCHANGED library_entry
           ELSE /\ library_entry' =
                      (library_entry \ rows) \cup
                      {[row EXCEPT !.score = IF payload.score # None THEN Val(payload.score) ELSE @,
                                   !.is_favorite = IF payload.is_favorite # None
                                                   THEN Val(payload.is_favorite) ELSE @,
                                   !.note = IF payload.note # None THEN payload.note ELSE @] :
                          row \in rows}
                /\ libLast' = Respond("update", 200, user_id, rating_id[2])
        /\ UNCHANGED libReqs
        /\ UNCHANGED <<dbvars, linkPassed, last, scrapevars, rlvars, syncvars, afterLibrary>>

\* delete_rating
LibDelete ==
    \E user_id \in Users, rating_id \in Users \X LibSongs :
        LET rows == ByRatingId(library_entry, user_id, rating_id) IN
        /\ IF rows = {}
           THEN /\ libLast' = Respond("delete", 404, user_id, rating_id[2])
                /\ UNCHANGED library_entry
           ELSE /\ library_entry' = library_entry \ rows
                /\ libLast' = Respond("delete", 204, user_id, rating_id[2])
        /\ UNCHANGED libReqs
        /\ UNCHANGED <<dbvars, linkPassed, last, scrapevars, rlvars, syncvars, afterLibrary>>

NextLibrary ==
    \/ \E r \in LibSlots : LibCreateCheck(r)
    \/ \E r \in LibSlots : LibCreateCommit(r)
    \/ LibUpdate
    \/ LibDelete

SpecLibrary == Init /\ [][NextLibrary]_vars

OneEntryPerKey(table) ==
    \A e1, e2 \in table : (e1.user_id = e2.user_id /\ e1.song_id = e2.song_id) => e1 = e2

\* C13: a create_rating answers 409 and leaves the table as it is when
\* its check finds an entry for (user, song), and goes on to its insert only
\* when it finds none; a create changes the table only by adding the entry
\* of its payload, for a pair that had none, and then answers 201; and in
\* every state there is at most one entry per (user_id, song_id).
C13_CreateOr409 ==
    [][/\ OneEntryPerKey(library_entry')
       /\ (libLast'.op = "create" /\ libLast'.status = 409 /\ libLast' # libLast) =>
             /\ EntriesOf(library_entry, libLast'.user_id, libLast'.song_id) # {}
             /\ library_entry' = library_entry
       /\ \A r \in LibSlots :
             (libReqs[r].pc = "idle" /\ libReqs'[r].pc = "checked") =>
                 EntriesOf(library_entry, libReqs'[r].user_id, libReqs'[r].payload.song_id) = {}
       /\ (libLast'.op = "create" /\ library_entry' # library_entry) =>
             /\ libLast'.status = 201
             /\ EntriesOf(library_entry, libLast'.user_id, libLast'.song_id) = {}
             /\ \E r \in LibSlots :
                   /\ libReqs[r].pc = "checked"
                   /\ libReqs[r].user_id = libLast'.user_id
                   /\ library_entry' = library_entry \cup {NewEntry(libReqs[r].user_id, libReqs[r].payload)}]_vars

\* C13 witness: a create answered 409 for an entry that an update had
\* changed, while another user holds an entry for the same song.
C13_Witness ==
    /\ libLast.op = "create" /\ libLast.status = 409
    /\ \E e \in library_entry :
          /\ e.user_id = libLast.user_id /\ e.song_id = libLast.song_id /\ e.score = 50
    /\ \E e \in library_entry : e.user_id # libLast.user_id /\ e.song_id = libLast.song_id

(***************************************************************************)
(* Account service: POST /auth/register.  The handler is a sync `def` run  *)
(* in a thread pool: its existence check and its commit are two steps.     *)
(* users.email is CITEXT UNIQUE: the database compares emails without      *)
(* regard to case.                                                         *)
(***************************************************************************)
MaxRegisters == 3   \* register requests made

Emails == {"ann@x.org", "Ann@X.org", "ANN@x.org", "bob@x.org"}

\* str.lower() on the emails the model draws from
EmailLower(e) == CASE e = "Ann@X.org" -> "ann@x.org"
                   [] e = "ANN@x.org" -> "ann@x.org"
                   [] OTHER -> e

\* A unique index that lets every row in.
EmailTaken_never(table, email) == FALSE

\* The unique index on the CITEXT column: a row with an equal email exists
EmailTaken(table, email) == \E u \in table : EmailLower(u.email) = EmailLower(email)

\* existing = db.query(User).filter(User.email == email).first()
UserWithEmail(table, email) == {u \in table : EmailLower(u.email) = EmailLower(email)}

RegStarted == Len(regLog) + Cardinality({r \in RegSlots : regReqs[r].pc # "idle"})

\* register up to `if existing: raise HTTPException(409)`
RegCheck(r) ==
    \E raw \in Emails, display_name \in {"", "Ann"} :
        LET email == EmailLower(raw) IN
        /\ regReqs[r].pc = "idle"
        /\ RegStarted < MaxRegisters
        /\ IF UserWithEmail(users, email) # {}
           THEN /\ regLog' = Append(regLog, [email |-> email, status |-> 409, at |-> "check"])
                /\ UNCHANGED regReqs
           ELSE /\ regReqs' = [regReqs EXCEPT ![r] = [pc |-> "checked", email |-> email,
                                                      display_name |-> display_name]]
                /\ UNCHANGED regLog
        /\ UNCHANGED users
        /\ UNCHANGED <<dbvars, linkPassed, last, scrapevars, rlvars, syncvars, libvars, afterRegister>>

\* db.add(user); db.commit(), with IntegrityError answered 409
RegCommit(r) ==
    /\ regReqs[r].pc = "checked"
    /\ IF EmailTaken(users, regReqs[r].email)
       THEN /\ regLog' = Append(regLog, [email |-> regReqs[r].email, status |-> 409,
                                         at |-> "commit"])
            /\ UNCHANGED users
       ELSE /\ users' = users \cup {[email |-> regReqs[r].email,
                                     display_name |-> regReqs[r].display_name]}
            /\ regLog' = Append(regLog, [email |-> regReqs[r].email, status |-> 201,
                                         at |-> "commit"])
    /\ regReqs' = [regReqs EXCEPT ![r] = NoRegister]
    /\ UNCHANGED <<dbvars, linkPassed, last, scrapevars, rlvars, syncvars, libvars, afterRegister>>

NextRegister ==
    \/ \E r \in RegSlots : RegCheck(r)
    \/ \E r \in RegSlots : RegCommit(r)

SpecRegister == Init /\ [][NextRegister]_vars

Answers(email, status) ==
    {i \in DOMAIN regLog : regLog[i].email = email /\ regLog[i].status = status}

\* C14: for every lower-cased email, at most one register got 201 and it
\* created the only User row of that email; every other answer is 409 and
\* is given only once that row exists.
C14_OneWinnerPerEmail ==
    \A e \in {EmailLower(raw) : raw \in Emails} :
        /\ Cardinality(Answers(e, 201)) <= 1
        /\ Cardinality({u \in users : EmailLower(u.email) = e}) = Cardinality(Answers(e, 201))
        /\ \A i \in DOMAIN regLog : regLog[i].status \in {201, 409}
        /\ Answers(e, 409) # {} => Answers(e, 201) # {}

\* C14 witness: a request that passed the existence check got 409 at its
\* commit, after the winner had committed the same email.
C14_Witness ==
    /\ Len(regLog) = 2
    /\ regLog[1].status = 201 /\ regLog[2].status = 409
    /\ regLog[2].at = "commit"
    /\ regLog[1].email = regLog[2].email
    /\ Cardinality(users) = 1

(***************************************************************************)
(* GET /songs/by-anime/{anime_id}: the handler checks that the anime has   *)
(* no link, awaits the upstream inside import_songs_for_anime, then runs   *)
(* the loop and commits.  Other requests run while it awaits.              *)
(***************************************************************************)
\* A row whose anilist id is not a number
RowJunkLinked ==
    [RowInsert EXCEPT !.linked_ids = Some([anilist |-> JJunk, myanimelist |-> JNone])]

\* "Ending 1" of Show A: the song of RowOpening used a second time
RowEnding ==
    [RowOpening EXCEPT !.annSongId = Some(3), !.songType = Some(<<"Ending", "1">>)]

\* What the upstream may answer to fetch_by_mal_ids and to search_by_title
MalAnswers == {<<>>, <<RowOpening>>, <<RowOpening, RowEnding>>, <<RowTheme, RowOpening, RowOpening>>}
TitleAnswers == {<<>>, <<RowInsert>>, <<RowJunkLinked>>}

LinkedSongs(table, anime_id) ==
    {table[i].song_id : i \in {j \in DOMAIN table : table[j].anime_id = anime_id}}

\* Lines 100-103 of the handler: the anime is loaded, has_any is computed; with
\* links present the handler only reads.  last.songs is what has_any saw.
SongsByAnimeStart ==
    \E anime_id \in DOMAIN anime :
        /\ songsReq.pc = "idle"
        /\ last' = [op |-> "get_songs_by_anime", anime_id |-> anime_id,
                    songs |-> LinkedSongs(song_anime, anime_id)]
        /\ IF LinkedSongs(song_anime, anime_id) # {}
           THEN UNCHANGED songsReq
           ELSE songsReq' = [pc |-> "fetching", anime_id |-> anime_id, row |-> anime[anime_id]]
        /\ UNCHANGED <<dbvars, linkPassed, scrapevars, rlvars, syncvars, libvars, regvars, afterSongs>>

\* The upstream has answered: the loop runs and the import commits.
\* mal_answers and title_answers are the answers the upstream may give.
SongsByAnimeImportFrom(mal_answers, title_answers) ==
    /\ songsReq.pc = "fetching"
    /\ \E by_mal \in mal_answers, by_title \in title_answers, pick \in PicksFor(DB) :
        /\ ~AnimeResultsRaise(songsReq.row, by_title)
        /\ \E r \in {import_songs_for_anime(DB, songsReq.anime_id, songsReq.row,
                                            by_mal, by_title, pick)} :
            /\ WithinBounds(r.db)
            /\ Commit(r.db)
            /\ last' = [op |-> "import_songs_for_anime", anime_id |-> songsReq.anime_id,
                        out_songs |-> r.out_songs,
                        rows |-> AnimeResults(songsReq.row, by_mal, by_title), pick |-> pick]
    /\ songsReq' = NoSongsRequest
    /\ UNCHANGED <<linkPassed, scrapevars, rlvars, syncvars, libvars, regvars, afterSongs>>

SongsByAnimeImport == SongsByAnimeImportFrom(MalAnswers, TitleAnswers)

\* POST /anime/import/anilist/{anilist_id}, while the table is within bounds
Call_import_anime_within_bounds ==
    /\ Len(anime) < MaxImportAnime
    /\ Call_import_anime_from_anilist

\* The answers the upstream gives to the deep imports that run beside the handler
SongsUpstreams == <<Upstreams[2], Upstreams[3], Upstreams[4]>>

\* POST /people/import/anisongdb/{id} with the upstream answering upstreams[u]
Call_upsert_person_deep_from(upstreams) ==
    \E aid \in 1..MaxArtistId, u \in DOMAIN upstreams, pick \in PicksFor(DB) :
        \E r \in {upsert_person_from_anisongdb_deep(DB, aid, TRUE, upstreams[u].by_artist,
                                                   upstreams[u].by_composer, pick)} :
        /\ WithinBounds(r.db)
        /\ Commit(r.db)
        /\ last' = [op |-> "upsert_person_deep_from", args |-> <<aid, u>>, pick |-> pick]
        /\ UNCHANGED <<linkPassed, outside>>

NextSongs ==
    \/ Call_import_anime_within_bounds
    \/ Call_upsert_person_deep_from(SongsUpstreams)
    \/ SongsByAnimeStart
    \/ SongsByAnimeImport

SpecSongs == Init /\ [][NextSongs]_vars

NoRepeat(sq) == \A i, j \in DOMAIN sq : sq[i] = sq[j] => i = j

\* C15: the list import_songs_for_anime returns has no repeated Song and holds
\* exactly the songs that have a song_anime link to the given anime once the
\* import has committed.
C15_ReturnsLinkedSongs ==
    last.op = "import_songs_for_anime" =>
        /\ NoRepeat(last.out_songs)
        /\ SeqToSet(last.out_songs) = LinkedSongs(song_anime, last.anime_id)

(***************************************************************************)
(* Imports that raise.  The importer functions flush but commit only as    *)
(* their last statement; get_db (and the by-anime handler's except branch) *)
(* roll the session back when the import raises.  k is the number of       *)
(* result rows the loop had finished when it raised; with k = Len(results) *)
(* it is the commit that raises.                                           *)
(***************************************************************************)
\* A rollback that keeps what the session flushed.
Rollback_keep(committed, session) == session

\* db.rollback(): the tables are as they were at the last commit
Rollback(committed, session) == committed

\* The tables of a session's view
TablesOf(d) == <<d.people, d.anime, d.song, d.song_artist, d.people_membership, d.song_anime>>

\* Python results[:k]
Prefix(results, k) == SubSeq(results, 1, k)

\* The rows import_songs_for_person runs its loop over (lines 609-629)
PersonResults(row, roles, by_artist, by_composer, by_search) ==
    LET r1 == IF row.anisongdb_id # None
              THEN (IF "artist" \in roles THEN by_artist ELSE <<>>)
                   \o (IF "composer" \in roles THEN by_composer ELSE <<>>)
              ELSE <<>>
    IN  IF r1 # <<>> THEN r1
        ELSE SearchRows(<<row.primary_name>> \o row.alt_names, by_search, 1, {}, <<>>)

\* The session when the person / deep loop raises in row k + 1 after the
\* row's Song and Anime were flushed.
RaisedInRow(d, results, k, pick) ==
    IF k >= Len(results) \/ RowSkipped(results[k + 1]) THEN d
    ELSE With(_get_or_create_song(d, Val(OrStr(results[k + 1].songName, results[k + 1].name)),
                                  "", pick), LAMBDA s :
              _get_or_create_anime_from_row(s.db, results[k + 1], pick).db)

\* The session when the by-anime loop raises in row k + 1 after the row's
\* Song was flushed and its artists were credited.
RaisedInAnimeRow(d, results, k, pick) ==
    IF k >= Len(results) \/ RowSkipped(results[k + 1]) THEN d
    ELSE With(_get_or_create_song(d, Val(OrStr(results[k + 1].songName, results[k + 1].name)),
                                  "", pick), LAMBDA s :
              CreditRole(s.db, s.id, results[k + 1].artists, results[k + 1].songArtist,
                         "artist", pick))

Failed(fn, committed, session) ==
    [op |-> "import_failed", fn |-> fn, wrote |-> TablesOf(session) # TablesOf(committed)]

\* GET /songs/by-anime/{anime_id}: the fetch raises (upstream error, or int()
\* on a non-numeric id in _row_matches_anime) or the loop does; the handler
\* rolls back and answers 502.
SongsByAnimeFails ==
    /\ songsReq.pc = "fetching"
    /\ \E by_mal \in MalAnswers, by_title \in TitleAnswers, pick \in PicksFor(DB) :
       \E k \in 0..Len(AnimeResults(songsReq.row, by_mal, by_title)) :
       \E s \in {IF AnimeResultsRaise(songsReq.row, by_title) THEN DB
                 ELSE RaisedInAnimeRow(
                          PersistAnimeRows(DB, songsReq.anime_id,
                              Prefix(AnimeResults(songsReq.row, by_mal, by_title), k),
                              1, {}, <<>>, pick).db,
                          AnimeResults(songsReq.row, by_mal, by_title), k, pick)} :
            /\ WithinBounds(s)
            /\ Commit(Rollback(DB, s))
            /\ last' = Failed("import_songs_for_anime", DB, s)
    /\ songsReq' = NoSongsRequest
    /\ UNCHANGED <<linkPassed, scrapevars, rlvars, syncvars, libvars, regvars, afterSongs>>

\* GET /songs/by-person/{person_id}: import_songs_for_person raises; get_db
\* rolls back.
Fail_import_songs_for_person ==
    \E person \in DOMAIN people, roles \in RoleSets, u \in DOMAIN Upstreams,
       pick \in PicksFor(DB) :
       \E results \in {PersonResults(people[person], roles, Upstreams[u].by_artist,
                                     Upstreams[u].by_composer, Upstreams[u].by_search)} :
       \E k \in 0..Len(results) :
       \E s \in {RaisedInRow(PersistRows(DB, Prefix(results, k), 1, {}, pick), results, k, pick)} :
            /\ WithinBounds(s)
            /\ Commit(Rollback(DB, s))
            /\ last' = Failed("import_songs_for_person", DB, s)
            /\ UNCHANGED <<linkPassed, outside>>

\* POST /people/import/anisongdb/{id}: the upsert of the target has run and
\* the loop raises; get_db rolls back.  (A fetch that raises is swallowed:
\* it counts as an empty answer.)
Fail_upsert_person_deep ==
    \E aid \in 1..MaxArtistId, u \in DOMAIN Upstreams, pick \in PicksFor(DB) :
       \E results \in {Upstreams[u].by_artist \o Upstreams[u].by_composer} :
       \E k \in 0..Len(results) :
       \E p \in {upsert_person_from_anisongdb_deep(DB, aid, FALSE, Upstreams[u].by_artist,
                                                   Upstreams[u].by_composer, pick)} :
       \E s \in {RaisedInRow(PersistRows(p.db, Prefix(results, k), 1, {}, pick), results, k, pick)} :
            /\ results # <<>>
            /\ WithinBounds(s)
            /\ Commit(Rollback(DB, s))
            /\ last' = Failed("upsert_person_from_anisongdb_deep", DB, s)
            /\ UNCHANGED <<linkPassed, outside>>

NextAbort ==
    \/ Call_import_anime_within_bounds
    \/ SongsByAnimeStart
    \/ SongsByAnimeImport
    \/ SongsByAnimeFails
    \/ Fail_import_songs_for_person
    \/ Fail_upsert_person_deep

SpecAbort == Init /\ [][NextAbort]_vars

PeopleOps == {"get_or_create_person", "upsert_artist_entity", "upsert_person_shallow"}

\* C17: the row _get_or_create_person returns for a non-null anisongdb_id
\* holds exactly that id after the call, whatever the people table held
\* before, and no call resolves two different ids to one People row.
C17_ReturnsRowWithThatId ==
    /\ last.op = "get_or_create_person" =>
         \A t \in last.trace : t.aid # None => people[t.id].anisongdb_id = t.aid
    /\ last.op \in PeopleOps =>
         \A t1, t2 \in last.trace :
             (t1.aid # None /\ t2.aid # None /\ t1.aid # t2.aid) => t1.id # t2.id

(***************************************************************************)
(* Appearances after a successful person import.                           *)
(***************************************************************************)
\* Whether Anime row a is the one a result row resolves to: a row with the
\* payload's anilist or myanimelist id, or, for a payload without ids, the
\* row created from its titles.
RowResolvesTo(a, r) ==
    IF _extract_linked_ids(r) = NoLinked
    THEN a.linked_ids = NoLinked /\ a.title_en = r.animeENName
    ELSE \/ /\ _extract_linked_ids(r).anilist # None
            /\ a.linked_ids.anilist = _extract_linked_ids(r).anilist
         \/ /\ _extract_linked_ids(r).myanimelist # None
            /\ a.linked_ids.myanimelist = _extract_linked_ids(r).myanimelist

\* song_anime (t_link) holds the appearance result row r describes
AppearanceHeld(t_song, t_anime, t_link, r) ==
    \E i \in DOMAIN t_link :
        /\ t_song[t_link[i].song_id].name = Val(OrStr(r.songName, r.name))
        /\ RowResolvesTo(t_anime[t_link[i].anime_id], r)
        /\ t_link[i].use_type = Val(parse_use_type_and_seq(r.songType)[1])
        /\ t_link[i].sequence = parse_use_type_and_seq(r.songType)[2]

AllAppearancesHeld(t_song, t_anime, t_link, results) ==
    \A k \in DOMAIN results :
        ~RowSkipped(results[k]) => AppearanceHeld(t_song, t_anime, t_link, results[k])

\* C18: after a successful import_songs_for_person or deep import, for every
\* upstream result row with a song name and a songType parsing to OP, ED or
\* IN, song_anime links the Song of that name to the Anime resolved from the
\* row with the row's use_type and sequence, also when rows share their
\* (annSongId, songName) pair or have no annSongId.
C18_NoAppearanceLost ==
    [][/\ last'.op = "upsert_person_deep" =>
            AllAppearancesHeld(song', anime', song_anime',
                Upstreams[last'.args[2]].by_artist \o Upstreams[last'.args[2]].by_composer)
       /\ last'.op = "import_songs_for_person" =>
            AllAppearancesHeld(song', anime', song_anime',
                PersonResults(people[last'.args[1]], last'.args[2],
                              Upstreams[last'.args[3]].by_artist,
                              Upstreams[last'.args[3]].by_composer,
                              Upstreams[last'.args[3]].by_search))]_vars

(***************************************************************************)
(* Rows the loops skip: the three imports fed with upstream answers that   *)
(* mix rows without a song name, without a songType or with a songType     *)
(* that is not OP / ED / IN among valid rows.                              *)
(***************************************************************************)
\* A row of Show C by artist C with no songType
RowNoType ==
    [BaseRow EXCEPT !.annSongId = Some(5), !.songName = Some("Song C"),
                    !.linked_ids = Some([anilist |-> JInt(MaxLinkedId), myanimelist |-> JNone]),
                    !.animeENName = Some("Show C"), !.audio = Some("c.mp3"),
                    !.artists = <<Artist(JNone, <<"C">>, <<>>, <<>>)>>,
                    !.songComposer = Some(<<"C">>)]

\* The same row with a songType and an empty song name
RowEmptyName ==
    [RowNoType EXCEPT !.annSongId = Some(6), !.songName = Some(""),
                      !.songType = Some(<<"Opening", "1">>)]

\* The same row with a songType and neither songName nor name
RowNoName ==
    [RowNoType EXCEPT !.annSongId = Some(7), !.songName = None,
                      !.songType = Some(<<"Ending", "1">>)]

SkipUpstreams == <<
    Upstream(<<RowNoType, RowOpening>>, <<RowEmptyName>>, <<>>),
    Upstream(<<RowTheme>>, <<>>, <<>>),
    Upstream(<<>>, <<>>, <<RowNoName, RowInsert>>) >>

SkipMalAnswers == {<<RowTheme, RowOpening, RowNoType>>, <<RowEmptyName>>}
SkipTitleAnswers == {<<RowNoName, RowInsert>>}

MaxSkipAnime == 1   \* rows of anime before which AniList imports run

\* POST /anime/import/anilist/{anilist_id}, while the table is within bounds
Call_import_anime_first ==
    /\ Len(anime) < MaxSkipAnime
    /\ Call_import_anime_from_anilist

\* import_songs_for_person with the upstream answering upstreams[u]
Call_import_songs_for_person_from(upstreams) ==
    \E person \in DOMAIN people, roles \in RoleSets, u \in DOMAIN upstreams,
       pick \in PicksFor(DB) :
        \E d \in {import_songs_for_person(DB, person, roles, upstreams[u].by_artist,
                                         upstreams[u].by_composer, upstreams[u].by_search, pick)} :
        /\ WithinBounds(d)
        /\ Commit(d)
        /\ last' = [op |-> "import_songs_for_person_from", args |-> <<person, roles, u>>,
                    pick |-> pick]
        /\ UNCHANGED <<linkPassed, outside>>

NextSkip ==
    \/ Call_import_anime_first
    \/ Call_upsert_person_deep_from(SkipUpstreams)
    \/ Call_import_songs_for_person_from(SkipUpstreams)
    \/ SongsByAnimeStart
    \/ SongsByAnimeImportFrom(SkipMalAnswers, SkipTitleAnswers)

SpecSkip == Init /\ [][NextSkip]_vars

\* The rows of the model that have no song name, no songType, or a songType
\* that is not OP / ED / IN
SkipRows == {RowTheme, RowNoType, RowEmptyName, RowNoName}

WithoutSkipRows(results) == SelectSeq(results, LAMBDA r : r \notin SkipRows)

\* C19: a result row with no song name, no songType or a songType that does
\* not parse to OP, ED or IN writes nothing in any of the three imports: each
\* import leaves the tables as the same import of the remaining rows does (for
\* the deep import, after the upsert of its target), nothing only such a row
\* carries is ever stored, and every song_anime row has use_type OP, ED or IN.
C19_SkippedRowsWriteNothing ==
    [][/\ last'.op = "import_songs_for_person_from" =>
            dbvars' = TablesOf(PersistRows(DB,
                          WithoutSkipRows(PersonResults(people[last'.args[1]], last'.args[2],
                              SkipUpstreams[last'.args[3]].by_artist,
                              SkipUpstreams[last'.args[3]].by_composer,
                              SkipUpstreams[last'.args[3]].by_search)),
                          1, {}, last'.pick))
       /\ last'.op = "upsert_person_deep_from" =>
            dbvars' = TablesOf(PersistRows(
                          upsert_person_from_anisongdb_deep(DB, last'.args[1], FALSE,
                              SkipUpstreams[last'.args[2]].by_artist,
                              SkipUpstreams[last'.args[2]].by_composer, last'.pick).db,
                          WithoutSkipRows(SkipUpstreams[last'.args[2]].by_artist
                                          \o SkipUpstreams[last'.args[2]].by_composer),
                          1, {}, last'.pick))
       /\ last'.op = "import_songs_for_anime" =>
            dbvars' = TablesOf(PersistAnimeRows(DB, last'.anime_id, WithoutSkipRows(last'.rows),
                                                1, {}, <<>>, last'.pick).db)
       /\ \A i \in DOMAIN song_anime' : song_anime'[i].use_type \in {"OP", "ED", "IN"}
       /\ \A i \in DOMAIN song' : song'[i].name \notin {"Song C", ""}
       /\ \A i \in DOMAIN anime' : anime'[i].title_en # Some("Show C")
       /\ \A i \in DOMAIN people' : people'[i].primary_name # "C"]_vars

\* C19 witness: a by-anime import whose rows mixed skipped and valid rows has
\* committed a link, and People rows exist.
C19_Witness ==
    /\ last.op = "import_songs_for_anime"
    /\ \E k \in DOMAIN last.rows : last.rows[k] \in SkipRows
    /\ \E k \in DOMAIN last.rows : last.rows[k] \notin SkipRows
    /\ song_anime # <<>>
    /\ people # <<>>

(***************************************************************************)
(* Alt-names: _upsert_artist_entity called again and again.                *)
(***************************************************************************)
NextArtists == Call_upsert_artist_entity

SpecArtists == Init /\ [][NextArtists]_vars

IsPrefix(sq, longer) ==
    Len(sq) <= Len(longer) /\ \A i \in DOMAIN sq : longer[i] = sq[i]

\* C20: after any sequence of _upsert_artist_entity calls every People row
\* has an alt_names list with no repeated entry, no empty entry and no entry
\* equal to the row's primary_name, and each call only appends to the lists.
C20_AltNamesMerged ==
    [][\A i \in DOMAIN people' :
          /\ NoRepeat(people'[i].alt_names)
          /\ ~InSeq("", people'[i].alt_names)
          /\ ~InSeq(people'[i].primary_name, people'[i].alt_names)
          /\ i \in DOMAIN people => IsPrefix(people[i].alt_names, people'[i].alt_names)]_vars

(***************************************************************************)
(* The membership graph: _upsert_artist_entity called with Artist objects  *)
(* that carry members, groups, both or neither, again and again.           *)
(***************************************************************************)
MaxAltNames == 1   \* alt_names entries of a People row in the membership specification

GraphIds == {JNone, JInt(1), JInt(MaxArtistId)}
GraphSubs == {SubArtist(id, names) : id \in GraphIds, names \in {<<>>, <<"A">>, <<"B">>}}

\* Artist objects with one member or with one group, and a group that lists
\* a group of its own
GraphObjs ==
    {Artist(JInt(id), <<"A">>, <<sub>>, <<>>) : id \in 1..MaxArtistId, sub \in GraphSubs}
    \cup {Artist(JInt(id), <<"A">>, <<>>, <<sub>>) : id \in 1..MaxArtistId, sub \in GraphSubs}
    \cup {Artist(JInt(1), <<"A">>, <<SubArtist(JInt(MaxArtistId), <<"B">>)>>,
                  <<SubArtist(JNone, <<"B">>)>>)}

\* last holds the Artist object, the row returned and the tables before the call
Call_upsert_artist_entity_of(objs) ==
    \E a \in objs, pick \in PicksFor(DB) :
        \E r \in {_upsert_artist_entity(DB, a, pick)} :
        /\ Len(r.db.people) <= MaxPeople
        /\ \A i \in DOMAIN r.db.people : Len(r.db.people[i].alt_names) <= MaxAltNames
        /\ Commit(r.db)
        /\ last' = [op |-> "upsert_artist_entity_of", a |-> a, id |-> r.id]
        /\ UNCHANGED <<linkPassed, outside>>

NextGraph == Call_upsert_artist_entity_of(GraphObjs)

SpecGraph == Init /\ [][NextGraph]_vars

\* mem_name / gname of lines 260 and 271: the entry's first name, else the
\* placeholder built from its id, else nothing.
EntryName(sub, prefix) ==
    IF _primary_name_from_artist_obj(sub) # None THEN _primary_name_from_artist_obj(sub)
    ELSE IF _to_int(sub.id) # None THEN Some(Placeholder(prefix, Val(_to_int(sub.id))))
    ELSE None

\* The People row is the one the entry names: it carries the entry's id or
\* the entry's name.
IsRowOf(row, sub, prefix) ==
    \/ _to_int(sub.id) # None /\ row.anisongdb_id = _to_int(sub.id)
    \/ row.primary_name = Val(EntryName(sub, prefix))

MembersLinked(table, rows, a, id) ==
    \A k \in DOMAIN a.members :
        EntryName(a.members[k], "Artist") # None =>
            \E j \in DOMAIN rows : /\ IsRowOf(rows[j], a.members[k], "Artist")
                                   /\ <<id, j>> \in table

GroupsLinked(table, rows, a, id) ==
    \A k \in DOMAIN a.groups :
        EntryName(a.groups[k], "Group") # None =>
            \E j \in DOMAIN rows : /\ IsRowOf(rows[j], a.groups[k], "Group")
                                   /\ <<j, id>> \in table

\* C21: after _upsert_artist_entity(a) people_membership holds the row
\* (group = a's row, member = m's row) for every entry m of a.members with a
\* resolvable name and the row (group = g's row, member = a's row) for every
\* entry g of a.groups with a resolvable name; the call repeated at once adds
\* no row; and the group side of every membership row is a People row of
\* kind 'group'.
C21_MembershipGraph ==
    [][/\ last'.op = "upsert_artist_entity_of" =>
            /\ MembersLinked(people_membership', people', last'.a, last'.id)
            /\ GroupsLinked(people_membership', people', last'.a, last'.id)
            /\ (last.op = "upsert_artist_entity_of" /\ last.a = last'.a) =>
                    people_membership' = people_membership
       /\ \A pair \in people_membership' :
            /\ pair[1] \in DOMAIN people' /\ pair[2] \in DOMAIN people'
            /\ people'[pair[1]].kind = "group"]_vars

(***************************************************************************)
(* Seed script: _do_request.  A URL is the sequence of its pieces, cut so  *)
(* that every occurrence of "/api" and every path prefix the code looks    *)
(* for is a piece of its own; times are whole seconds.                     *)
(***************************************************************************)
MaxAttempts == 8   \* attempts of one _do_request call

ANISONGDB_MAX_BACKOFF == 60

\* API_BASE: the default, and a catalog service on a host named api.local
ApiBases == {<<"http://localhost:8001", "/api">>, <<"http:/", "/api", ".local", "/api">>}

\* The paths import_anime, songs_by_anime, import_person and songs_by_person ask for
SeedPaths == {<<"/anime/import/anilist", "/1">>, <<"/songs/by-anime", "/1">>,
              <<"/people/import/anisongdb", "/1">>,
              <<"/songs/by-person", "/1?roles=artist,composer,arranger">>}

Methods == {"GET", "POST", "PUT"}

\* Retry-After headers: absent, "0", "120", an HTTP date
RetryAfters == {JNone, JStr(0), JStr(120), JJunk}

Min(a, b) == IF a <= b THEN a ELSE b

\* url.split("/api", 1)[-1] if "/api" in url else url
PathOfUrl(url) ==
    IF InSeq("/api", url)
    THEN SubSeq(url, SetMin({i \in DOMAIN url : url[i] = "/api"}) + 1, Len(url))
    ELSE url

\* any(path.startswith(p) for p in (...))
NeedsLimiter(url) ==
    /\ PathOfUrl(url) # <<>>
    /\ Head(PathOfUrl(url)) \in {"/songs/by-anime", "/people/import/anisongdb", "/songs/by-person"}

\* ra and ra.replace(".", "", 1).isdigit()
RetryAfterIsNumber(ra) == ra.kind = "str"

\* The seconds slept after a 429
Wait429(ra, backoff) == IF RetryAfterIsNumber(ra) THEN ra.v ELSE Max(5, backoff)

\* The call starts (again, once the one before has ended): backoff = 1.0
DoRequestStart ==
    /\ doReq.pc \in {"idle", "done", "raised"}
    /\ \E method \in Methods, base \in ApiBases, path \in SeedPaths :
        doReq' = [NoDoRequest EXCEPT !.pc = "top", !.method = method, !.base = base,
                                     !.path = path, !.backoff = 1]
    /\ UNCHANGED <<dbvars, linkPassed, last, scrapevars, rlvars, syncvars, libvars, regvars,
                   songsReq>>

\* Top of the loop: the pre-wait on anisongdb_rl for the URLs the code detects
DoRequestGate ==
    /\ doReq.pc = "top"
    /\ doReq' = [doReq EXCEPT !.pc = "send",
                              !.passed = NeedsLimiter(doReq.base \o doReq.path)]
    /\ UNCHANGED <<dbvars, linkPassed, last, scrapevars, rlvars, syncvars, libvars, regvars,
                   songsReq>>

\* After a failure: the sleep, the doubled backoff, and back to the top
Retried(r, status, seconds) ==
    [r EXCEPT !.pc = "top", !.status = status, !.attempts = @ + 1, !.passed = FALSE,
              !.slept = Min(seconds, ANISONGDB_MAX_BACKOFF),
              !.backoff = Min(r.backoff * 2, ANISONGDB_MAX_BACKOFF)]

\* One attempt: the request goes out and a network error (status 0) or a
\* response comes back; a method other than GET and POST raises RuntimeError.
DoRequestAttempt ==
    /\ doReq.pc = "send"
    /\ doReq.attempts < MaxAttempts
    /\ IF doReq.method \notin {"GET", "POST"}
       THEN doReq' = [doReq EXCEPT !.pc = "raised"]
       ELSE \E status \in {0} \cup HttpStatuses, ra \in RetryAfters :
            doReq' = IF status = 0 THEN Retried(doReq, status, doReq.backoff)
                     ELSE IF status = 429
                          THEN Retried(doReq, status, Wait429(ra, doReq.backoff))
                     ELSE IF 500 <= status /\ status < 600
                          THEN Retried(doReq, status, doReq.backoff)
                     ELSE [doReq EXCEPT !.pc = "done", !.status = status,
                                        !.attempts = @ + 1, !.passed = FALSE]
    /\ UNCHANGED <<dbvars, linkPassed, last, scrapevars, rlvars, syncvars, libvars, regvars,
                   songsReq>>

NextDoRequest ==
    \/ DoRequestStart
    \/ DoRequestGate
    \/ DoRequestAttempt

SpecDoRequest == Init /\ [][NextDoRequest]_vars

\* The step is an attempt that got an answer or a network error
IsAttempt == doReq.pc = "send" /\ doReq'.attempts = doReq.attempts + 1

FailedStatus(status) == status = 0 \/ status = 429 \/ (500 <= status /\ status < 600)

\* C22: _do_request returns only a response whose status is neither 429 nor
\* 5xx; after a 429, a 5xx or a network error it sleeps and goes back to try
\* again, however many attempts it has made; the backoff doubles per failure
\* up to ANISONGDB_MAX_BACKOFF, which neither it nor a sleep exceeds; and every
\* attempt at a /songs/by-anime, /people/import/anisongdb or /songs/by-person
\* URL comes after a pass through the rate limiter made since the attempt
\* before it.
C22_RetriesBehindLimiter ==
    [][/\ doReq'.pc = "done" => ~FailedStatus(doReq'.status)
       /\ IsAttempt /\ FailedStatus(doReq'.status) =>
            /\ doReq'.pc = "top"
            /\ doReq'.backoff = Min(2 * doReq.backoff, ANISONGDB_MAX_BACKOFF)
            /\ doReq'.slept <= ANISONGDB_MAX_BACKOFF
       /\ doReq'.backoff <= ANISONGDB_MAX_BACKOFF
       /\ IsAttempt /\ Head(doReq.path) \in {"/songs/by-anime", "/people/import/anisongdb",
                                              "/songs/by-person"} =>
            doReq.passed]_vars

====
